---- MODULE Spec2Model ----
(***************************************************************************)
(* Duration resolution for Trecento mensural notation (music21 medren.py). *)
(*                                                                         *)
(* Lengths are kept as integers counted in sixths of a minima (1/2 minima  *)
(* = 3, 2/3 minima = 4, 1 minima = 6), so every length, difference and     *)
(* remaining budget the resolver computes is exact.  Scores of the         *)
(* strength evaluator are integers counted in 288ths.                      *)
(***************************************************************************)
EXTENDS Integers, Sequences, FiniteSets, TLC

(* ---------------------------------------------------------------------- *)
(* Bounds of the model                                                    *)
(* ---------------------------------------------------------------------- *)
MaxLen == 3
MaxDoublings == 4
MaxRuns == 2
MaxLigature == 3

(* ---------------------------------------------------------------------- *)
(* Units                                                                  *)
(* ---------------------------------------------------------------------- *)
Unit == 6
ScoreUnit == 288
Half == 3
TwoThirds == 4
Sixth == 1

Abs(x) == IF x < 0 THEN -x ELSE x
Max(a, b) == IF a >= b THEN a ELSE b
Min(a, b) == IF a <= b THEN a ELSE b

RECURSIVE SumSeq(_)
SumSeq(s) == IF s = <<>> THEN 0 ELSE Head(s) + SumSeq(Tail(s))

RECURSIVE SumTo(_, _)
SumTo(s, n) == IF n = 0 THEN 0 ELSE s[n] + SumTo(s, n - 1)

Last(s) == s[Len(s)]

(* [0 for i in range(len(measure))], built element by element *)
RECURSIVE zeros(_)
zeros(measure) == IF measure = <<>> THEN <<>> ELSE <<0>> \o zeros(Tail(measure))
Contains(s, x) == \E k \in 1..Len(s) : s[k] = x
IndexOf(s, x) == CHOOSE k \in 1..Len(s) : s[k] = x /\ \A j \in 1..(k - 1) : s[j] # x

(* ---------------------------------------------------------------------- *)
(* Mensural symbols and divisiones                                        *)
(* ---------------------------------------------------------------------- *)
_validMensuralTypes == {"maxima", "longa", "brevis", "semibrevis", "minima", "semiminima"}

_validDivisiones ==
  [q |-> 4, i |-> 6, p |-> 6, n |-> 9, o |-> 8, d |-> 12]

DivisioneSymbols == {"q", "i", "p", "n", "o", "d"}

Divisione(nameOrSymbol) ==
  [cls |-> "Divisione", standardSymbol |-> nameOrSymbol,
   minimaPerBrevis |-> _validDivisiones[nameOrSymbol] * Unit]

Mensuration ==
  [cls |-> "Mensuration", standardSymbol |-> "C", minimaPerBrevis |-> 4 * Unit]

MensuralNote(t) ==
  [cls |-> "MensuralNote", mensuralType |-> t,
   stems |-> IF t \in {"minima", "semiminima"} THEN <<"up">> ELSE <<>>,
   flagUp |-> IF t = "semiminima" THEN "right"
              ELSE IF t = "minima" THEN "None" ELSE "absent",
   flagDown |-> "absent"]

MensuralRest(t) ==
  [cls |-> "MensuralRest", mensuralType |-> t, stems |-> <<>>, flagUp |-> "absent",
   flagDown |-> "absent"]

GeneralMensuralNote(t) ==
  [cls |-> "GeneralMensuralNote", mensuralType |-> t, stems |-> <<>>,
   flagUp |-> "absent", flagDown |-> "absent"]

getStems(obj) == obj.stems

appendStem(obj, direction) == [obj EXCEPT !.stems = Append(@, direction)]

setFlagUp(obj, orientation) == [obj EXCEPT !.flagUp = orientation]

setFlagDown(obj, orientation) == [obj EXCEPT !.flagDown = orientation]

isNote(obj) == obj.cls = "MensuralNote"
isRest(obj) == obj.cls = "MensuralRest"

(* ---------------------------------------------------------------------- *)
(* Strength evaluator                                                     *)
(* ---------------------------------------------------------------------- *)
typeStrength == [semibrevis |-> 4, minima |-> 2, semiminima |-> 1]

(* a table in which every onset off the first beat of a group is weak *)
beatStrengthFirstOnly(standardSymbol, curBeat, i) ==
  IF standardSymbol \in {"i", "n"}
  THEN IF curBeat % (3 * Unit) = 0 THEN 288 ELSE 32
  ELSE IF standardSymbol \in {"q", "o", "d"}
  THEN IF curBeat % (4 * Unit) = 0 THEN 288 ELSE 36
  ELSE IF curBeat % (6 * Unit) = 0 THEN 288 ELSE 36

beatStrength(standardSymbol, curBeat, i) ==
  IF standardSymbol \in {"i", "n"}
  THEN IF curBeat % (3 * Unit) = 0 THEN 288
       ELSE IF (curBeat % (3 * Unit) # Unit) \/ (i % 3 = 2) THEN 96
       ELSE 32
  ELSE IF standardSymbol \in {"q", "o", "d"}
  THEN IF curBeat % (4 * Unit) = 0 THEN 288
       ELSE IF curBeat % (4 * Unit) = 2 * Unit THEN 144
       ELSE IF curBeat % (2 * Unit) = Unit THEN 72
       ELSE 36
  ELSE IF curBeat % (6 * Unit) = 0 THEN 288
       ELSE IF curBeat % (2 * Unit) = 0 /\ curBeat % (3 * Unit) # 0 THEN 144
       ELSE IF curBeat % (2 * Unit) = Unit THEN 72
       ELSE 36

(* typeStrength[...] raises KeyError for a type it does not list *)
evaluateRaises(measure, lengths) ==
  \E k \in 1..Len(lengths) :
     measure[k].mensuralType \notin {"semibrevis", "minima", "semiminima"}

RECURSIVE strengthSum(_, _, _, _)
strengthSum(standardSymbol, measure, lengths, k) ==
  IF k = 0 THEN 0
  ELSE strengthSum(standardSymbol, measure, lengths, k - 1)
       + (typeStrength[measure[k].mensuralType]
          * beatStrength(standardSymbol, SumTo(lengths, k - 1), k - 1)) \div 4

_evaluateMeasure(mOrD, measure, lengths) ==
  strengthSum(mOrD.standardSymbol, measure, lengths, Len(lengths))
  - (ScoreUnit \div Unit) * Abs(mOrD.minimaPerBrevis - SumSeq(lengths))

(* ---------------------------------------------------------------------- *)
(* processMeasure: the search over combinations of lengthened symbols.    *)
(* Index lists hold positions 1..Len(measure); a release of 0 stands for  *)
(* None; counts such as change_num are kept in twelfths.                  *)
(* ---------------------------------------------------------------------- *)
Reverse(s) == [k \in 1..Len(s) |-> s[Len(s) + 1 - k]]

prefixAll(x, combs) == [k \in 1..Len(combs) |-> <<x>> \o combs[k]]

RECURSIVE allCombinations(_, _)
RECURSIVE combsFrom(_, _, _)
combsFrom(list, num, i) ==
  IF i > Len(list) THEN <<>>
  ELSE prefixAll(list[i], allCombinations(SubSeq(list, i + 1, Len(list)), num - 12))
       \o combsFrom(list, num, i + 1)

allCombinations(list, num) ==
  IF num > 0 THEN Reverse(<< <<>> >> \o combsFrom(list, num, 1))
  ELSE << <<>> >>

RECURSIVE applyChange(_, _, _, _)
applyChange(lengths, l, diff, release) ==
  IF l = <<>> THEN lengths
  ELSE LET added == [lengths EXCEPT ![Head(l)] = @ + diff]
           released == IF release # 0 THEN [added EXCEPT ![release] = @ - diff]
                       ELSE added
       IN applyChange(released, Tail(l), diff, release)

(* one pass of the "for l in allCombinations(...)" loop, multi = 0 *)
RECURSIVE searchCombinations(_, _, _, _)
searchCombinations(ctx, combs, k, acc) ==
  IF k > Len(combs) THEN acc
  ELSE LET l == Reverse(combs[k])
           lengths_changeable == applyChange(ctx.lengths, l, ctx.diff, ctx.release)
           remain == IF ctx.release # 0 THEN ctx.lenRem
                     ELSE ctx.lenRem - ctx.diff * Len(l)
           newStrength == _evaluateMeasure(ctx.mOrD, ctx.measure, lengths_changeable)
           cand == [lengths |-> lengths_changeable, rem |-> remain, final |-> FALSE]
       IN IF acc.strength < newStrength /\ remain >= 0
          THEN searchCombinations(ctx, combs, k + 1,
                 [lengths |-> lengths_changeable, strength |-> newStrength,
                  lenRem |-> remain, fresh |-> TRUE,
                  cands |-> acc.cands \cup {cand}, err |-> "none"])
          ELSE searchCombinations(ctx, combs, k + 1,
                 [acc EXCEPT !.cands = @ \cup {cand}])

processMeasure(mOrD, measure, lengths, change, change_num, diff, lenRem, release) ==
  IF evaluateRaises(measure, lengths)
  THEN [lengths |-> lengths, strength |-> 0, lenRem |-> lenRem, fresh |-> FALSE,
        cands |-> {}, err |-> "KeyError"]
  ELSE searchCombinations(
         [mOrD |-> mOrD, measure |-> measure, lengths |-> lengths, diff |-> diff,
          lenRem |-> lenRem, release |-> release],
         allCombinations(change, change_num), 1,
         [lengths |-> lengths, strength |-> _evaluateMeasure(mOrD, measure, lengths),
          lenRem |-> lenRem, fresh |-> FALSE, cands |-> {}, err |-> "none"])

(* the "for i in l" loop of the multi # 0 branch: every lengthened symbol *)
(* is followed by a nested search over the second change list             *)
RECURSIVE applyNested(_, _, _)
applyNested(ctx, l, st) ==
  IF l = <<>> THEN st
  ELSE LET added == [st.lengths EXCEPT ![Head(l)] = @ + ctx.diff[1]]
           released == IF ctx.release # <<>>
                       THEN [added EXCEPT ![ctx.release[1]] = @ - ctx.diff[1]]
                       ELSE added
           remain == IF ctx.release # <<>> THEN st.remain ELSE st.remain - ctx.diff[1]
           inner == processMeasure(ctx.mOrD, ctx.measure, released, ctx.change[2],
                                   ctx.change_num[2], ctx.diff[2], remain,
                                   IF ctx.release # <<>> THEN ctx.release[2] ELSE 1)
       IN applyNested(ctx, Tail(l),
            [lengths |-> inner.lengths, remain |-> inner.lenRem,
             cands |-> st.cands \cup inner.cands])

RECURSIVE searchNested(_, _, _, _)
searchNested(ctx, combs, k, acc) ==
  IF k > Len(combs) THEN acc
  ELSE LET l == Reverse(combs[k])
           after == applyNested(ctx, l,
                      [lengths |-> ctx.lengths, remain |-> ctx.lenRem, cands |-> {}])
           newStrength == _evaluateMeasure(ctx.mOrD, ctx.measure, after.lengths)
           cand == [lengths |-> after.lengths, rem |-> after.remain, final |-> FALSE]
       IN IF acc.strength < newStrength /\ after.remain >= 0
          THEN searchNested(ctx, combs, k + 1,
                 [lengths |-> after.lengths, strength |-> newStrength,
                  lenRem |-> after.remain, fresh |-> TRUE,
                  cands |-> acc.cands \cup after.cands \cup {cand}, err |-> "none"])
          ELSE searchNested(ctx, combs, k + 1,
                 [acc EXCEPT !.cands = @ \cup after.cands \cup {cand}])

(* processMeasure called with multi = 1: change, change_num and diff are  *)
(* pairs, releases is <<>> (None) or a pair of positions; without         *)
(* releases the nested call receives multi - 1 = 0 in the place of its    *)
(* releases argument, which is the first position of the measure          *)
processMeasureMulti(mOrD, measure, lengths, change_list, change_nums, diff_list, lenRem, releases) ==
  IF evaluateRaises(measure, lengths)
  THEN [lengths |-> lengths, strength |-> 0, lenRem |-> lenRem, fresh |-> FALSE,
        cands |-> {}, err |-> "KeyError"]
  ELSE searchNested(
         [mOrD |-> mOrD, measure |-> measure, lengths |-> lengths, diff |-> diff_list,
          lenRem |-> lenRem, release |-> releases, change |-> change_list,
          change_num |-> change_nums],
         allCombinations(change_list[1], change_nums[1]), 1,
         [lengths |-> lengths, strength |-> _evaluateMeasure(mOrD, measure, lengths),
          lenRem |-> lenRem, fresh |-> FALSE, cands |-> {}, err |-> "none"])

(* ---------------------------------------------------------------------- *)
(* getLengthsItalian, fixed assignment pass (the loop over the measure)   *)
(* ---------------------------------------------------------------------- *)
(* a fixed pass that takes the longa for the longest symbol *)
fixedLengthSwapped(t, mpb) ==
  IF t = "longa" THEN 4 * mpb ELSE IF t = "maxima" THEN 2 * mpb ELSE mpb

(* the length of a maxima, longa or brevis: float(4), float(2), float(1)  *)
(* times self.mOrD.minimaPerBrevis                                        *)
fixedLength(t, mpb) ==
  IF t = "maxima" THEN 4 * mpb
  ELSE IF t = "longa" THEN 2 * mpb
  ELSE mpb

RECURSIVE fixedPass(_, _, _, _)
fixedPass(mOrD, measure, i, e) ==
  IF i > Len(measure) \/ e.err # "none" THEN e
  ELSE
    LET obj == measure[i]
        t == obj.mensuralType
        sym == mOrD.standardSymbol
        mpb == mOrD.minimaPerBrevis
        set(len) == [e EXCEPT !.minimaLengths[i] = len]
        known(len) == [e EXCEPT !.minimaLengths[i] = len, !.minRem = @ - len,
                                !.isInt = FALSE]
        next ==
          IF t \in {"maxima", "longa", "brevis"} THEN set(fixedLength(t, mpb))
          ELSE IF e.minimaLengths[i] = 0 /\ (isNote(obj) \/ isRest(obj))
          THEN IF t = "semibrevis"
               THEN IF isRest(obj)
                    THEN IF sym \in {"q", "i"} THEN known(mpb \div 2)
                         ELSE IF sym \in {"p", "n"} THEN known(mpb \div 3)
                         ELSE [set(0) EXCEPT !.semibrevis_list = Append(@, i)]
                    ELSE IF Contains(getStems(obj), "side") THEN known(3 * Unit)
                         ELSE IF Contains(getStems(obj), "down")
                         THEN [set(0) EXCEPT !.semibrevis_downstem = Append(@, i)]
                         ELSE [set(0) EXCEPT !.semibrevis_list = Append(@, i)]
               ELSE IF t = "minima"
               THEN IF isNote(obj) /\ Contains(obj.stems, "down")
                    THEN [e EXCEPT !.err = "MedRenException"]
                    ELSE IF isNote(obj) /\ Contains(obj.stems, "side")
                    THEN known(9)
                    ELSE known(Unit)
               ELSE IF t = "semiminima"
               THEN IF isNote(obj)
                    THEN IF Contains(getStems(obj), "down")
                         THEN [e EXCEPT !.err = "MedRenException"]
                         ELSE IF obj.flagUp = "absent"
                         THEN [e EXCEPT !.err = "KeyError"]
                         ELSE IF obj.flagUp = "right"
                         THEN [set(0) EXCEPT !.semiminima_right_flag_list = Append(@, i)]
                         ELSE IF obj.flagUp = "left"
                         THEN [set(0) EXCEPT !.semiminima_left_flag_list = Append(@, i)]
                         ELSE set(0)
                    ELSE [set(0) EXCEPT !.semiminima_rest_list = Append(@, i)]
               ELSE set(0)
          ELSE set(0)
    IN fixedPass(mOrD, measure, i + 1, next)

afterFixedPass(mOrD, measure, minimaLengthList, pDS) ==
  fixedPass(mOrD, measure, 1,
    [minimaLengths |-> minimaLengthList, minRem |-> mOrD.minimaPerBrevis,
     isInt |-> TRUE, minRem_tracker |-> pDS,
     semibrevis_list |-> <<>>, semibrevis_downstem |-> <<>>,
     semiminima_right_flag_list |-> <<>>, semiminima_left_flag_list |-> <<>>,
     semiminima_rest_list |-> <<>>, cands |-> {}, err |-> "none"])

nextIsMinima(measure, ind) ==
  ind < Len(measure) /\ measure[ind + 1].mensuralType = "minima"

(* the result of a processMeasure call assigned to minimaLengths, minRem *)
withSearch(e, pm) ==
  [e EXCEPT !.minimaLengths = pm.lengths, !.minRem = pm.lenRem,
            !.cands = @ \cup pm.cands, !.err = pm.err]

(* ---------------------------------------------------------------------- *)
(* getLengthsItalian, senaria imperfecta ('.i.')                          *)
(* ---------------------------------------------------------------------- *)
RECURSIVE loopImperfecta(_, _, _, _)
loopImperfecta(measure, avg, k, e) ==
  IF k > Len(e.semibrevis_list) THEN e
  ELSE LET ind == e.semibrevis_list[k]
           give(len) == [e EXCEPT !.minimaLengths[ind] = len, !.minRem = @ - len]
       IN loopImperfecta(measure, avg, k + 1,
            IF avg = "two" THEN give(2 * Unit)
            ELSE IF avg = "between"
            THEN IF nextIsMinima(measure, ind) THEN give(2 * Unit) ELSE give(3 * Unit)
            ELSE IF avg = "three" THEN give(3 * Unit)
            ELSE e)

(* avgSBLength = minRem/len(semibrevis_list): a floor division while      *)
(* minRem is still the integer minimaPerBrevis                            *)
avgSBLength(e) ==
  LET n == Len(e.semibrevis_list)
  IN IF e.isInt
     THEN LET q == (e.minRem \div Unit) \div n
          IN IF q = 2 THEN "two" ELSE IF q = 3 THEN "three" ELSE "other"
     ELSE IF e.minRem = 2 * Unit * n THEN "two"
          ELSE IF 2 * Unit * n < e.minRem /\ e.minRem < 3 * Unit * n THEN "between"
          ELSE IF e.minRem = 3 * Unit * n THEN "three"
          ELSE "other"

lengthsImperfecta(mOrD, measure, e) ==
  LET e1 == IF Len(e.semibrevis_list) > 0
            THEN loopImperfecta(measure, avgSBLength(e), 1, e)
            ELSE e
  IN [e1 EXCEPT !.minRem_tracker = @ \/ (e1.minRem >= 0)]

(* ---------------------------------------------------------------------- *)
(* getLengthsItalian, novenaria ('.n.')                                   *)
(* ---------------------------------------------------------------------- *)
RECURSIVE loopNovenaria(_, _, _, _)
loopNovenaria(measure, list, k, e) ==
  IF k > Len(list) THEN e
  ELSE LET ind == list[k]
       IN loopNovenaria(measure, list, k + 1,
            IF nextIsMinima(measure, ind)
            THEN [e EXCEPT !.minimaLengths[ind] = 2 * Unit, !.minRem = @ - 2 * Unit,
                           !.extend_list = Append(@, ind)]
            ELSE [e EXCEPT !.minimaLengths[ind] = 3 * Unit, !.minRem = @ - 3 * Unit])

lengthsNovenaria(mOrD, measure, e0) ==
  LET e == [minimaLengths |-> e0.minimaLengths, minRem |-> e0.minRem,
            extend_list |-> <<>>, cands |-> {}, err |-> "none"]
      n == Len(measure)
      sbl == e0.semibrevis_list
      dsl == e0.semibrevis_downstem
      done ==
        IF Last(sbl) = n /\ Len(dsl) = 0
        THEN LET e1 == loopNovenaria(measure, SubSeq(sbl, 1, Len(sbl) - 1), 1, e)
                 last == Max(e1.minRem, 3 * Unit)
                 e2 == [e1 EXCEPT !.minimaLengths[n] = last, !.minRem = @ - last]
                 extend_num == Min(2 * (last - 3 * Unit), 12 * Len(e2.extend_list))
             IN IF e2.minRem >= 0
                THEN withSearch(e2, processMeasure(mOrD, measure, e2.minimaLengths,
                                   e2.extend_list, extend_num, Unit, e2.minRem, n))
                ELSE e2
        ELSE LET e1 == loopNovenaria(measure, sbl, 1, e)
             IN IF Len(dsl) = 0
                THEN LET extend_num == Min(2 * e1.minRem, 12 * Len(e1.extend_list))
                     IN IF e1.minRem >= 0
                        THEN withSearch(e1, processMeasure(mOrD, measure,
                                   e1.minimaLengths, e1.extend_list, extend_num, Unit,
                                   e1.minRem, 0))
                        ELSE e1
                ELSE LET semibrevis_downstem == dsl[1]
                         len == Max(e1.minRem, 3 * Unit)
                         e2 == [e1 EXCEPT !.minimaLengths[semibrevis_downstem] = len,
                                          !.minRem = @ - len]
                         extend_num == Min(2 * (len - 4 * Unit),
                                           12 * Len(e2.extend_list))
                     IN IF semibrevis_downstem # n /\ e2.minRem >= 0
                        THEN withSearch(e2, processMeasure(mOrD, measure,
                                   e2.minimaLengths, e2.extend_list, extend_num, Unit,
                                   e2.minRem, semibrevis_downstem))
                        ELSE e2
  IN IF Len(sbl) > 0
     THEN [e0 EXCEPT !.minimaLengths = done.minimaLengths, !.minRem = done.minRem,
                     !.cands = done.cands, !.err = done.err,
                     !.minRem_tracker = @ \/ (done.minRem >= 0)]
     ELSE e0

(* ---------------------------------------------------------------------- *)
(* Helpers shared by the semiminima searches                              *)
(* ---------------------------------------------------------------------- *)
RECURSIVE assignAll(_, _, _)
assignAll(lengths, list, v) ==
  IF list = <<>> THEN lengths
  ELSE assignAll([lengths EXCEPT ![Head(list)] = v], Tail(list), v)

RECURSIVE insertSorted(_, _)
insertSorted(list, x) ==
  IF list = <<>> THEN <<x>>
  ELSE IF x = Head(list) THEN list
  ELSE IF x < Head(list) THEN <<x>> \o list
  ELSE <<Head(list)>> \o insertSorted(Tail(list), x)

(* list(set(list)) for the small positions of a measure: no duplicates,   *)
(* ascending                                                              *)
RECURSIVE listOfSet(_)
listOfSet(list) ==
  IF list = <<>> THEN <<>> ELSE insertSorted(listOfSet(Tail(list)), Head(list))

(* master_list[k] for a Python index k (k = -1 is the last element);      *)
(* 0 stands for an index out of range                                     *)
pyAt(master_list, k) ==
  IF k = -1 /\ Len(master_list) > 0 THEN master_list[Len(master_list)]
  ELSE IF k >= 0 /\ k < Len(master_list) THEN master_list[k + 1]
  ELSE 0

(* which length a semiminima rest takes when left and right differ:       *)
(* "left", "right", "extend" (1/2, may be lengthened) or "IndexError"     *)
restNeighbours(master_list, left_list, right_list, ind) ==
  LET curIndex == IndexOf(master_list, ind) - 1
      last == Len(master_list) - 1
      prevIn(list) == Contains(list, pyAt(master_list, curIndex - 1))
      nextIn(list) == Contains(list, pyAt(master_list, curIndex + 1))
      matches(list) ==
        \/ curIndex = 0 /\ nextIn(list)
        \/ curIndex = last /\ prevIn(list)
        \/ prevIn(list) /\ nextIn(list)
  IN IF curIndex = 0 /\ last = 0 THEN "IndexError"
     ELSE IF matches(left_list) THEN "left"
     ELSE IF matches(right_list) THEN "right"
     ELSE "extend"

(* the loop "for ind in semiminima_rest_list" of a (left, right) pair     *)
(* with left # right; c carries ch, mrc, extend_list and err              *)
RECURSIVE loopRests(_, _, _, _, _, _, _)
loopRests(master_list, left_list, right_list, rests, left_length, right_length, c) ==
  IF rests = <<>> \/ c.err # "none" THEN c
  ELSE LET ind == Head(rests)
           side == restNeighbours(master_list, left_list, right_list, ind)
           c1 == IF side = "IndexError" THEN [c EXCEPT !.err = "IndexError"]
                 ELSE IF side = "left"
                 THEN [c EXCEPT !.ch[ind] = left_length, !.mrc = @ - left_length]
                 ELSE IF side = "right"
                 THEN [c EXCEPT !.ch[ind] = right_length, !.mrc = @ - right_length]
                 ELSE [c EXCEPT !.ch[ind] = Half,
                                !.extend_list = listOfSet(Append(@, ind))]
       IN loopRests(master_list, left_list, right_list, Tail(rests),
                    left_length, right_length,
                    IF side \in {"left", "right"}
                    THEN [c1 EXCEPT !.extend_list = listOfSet(@)] ELSE c1)

(* End of one iteration of a search over semiminima lengths:              *)
(*   tempStrength = _evaluateMeasure(...)                                 *)
(*   if tempStrength > strength and minRem_changeable > -0.0001: accept   *)
(*   minimaLengths_changeable = minimaLengths_static      (no copy)       *)
(*   minRem_tracker = minRem_tracker or (minRem_changeable > -0.0001)     *)
(* `written` is the working list after the iteration's own assignments:   *)
(* from the second iteration on it is the same object as the static list  *)
closeIteration(mOrD, measure, it, written, ch, mrc, cands, err) ==
  IF err # "none" THEN [it EXCEPT !.err = err]
  ELSE IF evaluateRaises(measure, ch) THEN [it EXCEPT !.err = "KeyError"]
  ELSE LET tempStrength == _evaluateMeasure(mOrD, measure, ch)
           accept == tempStrength > it.strength /\ mrc >= 0
       IN [it EXCEPT !.minimaLengths = IF accept THEN ch ELSE @,
                     !.minRem = IF accept THEN mrc ELSE @,
                     !.strength = IF accept THEN tempStrength ELSE @,
                     !.st = IF it.aliased THEN written ELSE @,
                     !.aliased = TRUE,
                     !.minRem_tracker = @ \/ (mrc >= 0),
                     !.cands = @ \cup cands \cup {[lengths |-> ch, rem |-> mrc, final |-> TRUE]}]

(* ---------------------------------------------------------------------- *)
(* getLengthsItalian, quaternaria and senaria perfecta ('.q.', '.p.')     *)
(* ---------------------------------------------------------------------- *)
(* pairs that give the left- and the right-flagged the same length *)
flagPairsEqual == << <<Half, Half>>, <<TwoThirds, TwoThirds>> >>

flagPairs == << <<Half, Half>>, <<TwoThirds, Half>>, <<Half, TwoThirds>>,
                <<TwoThirds, TwoThirds>> >>

flagLengths == <<Half, TwoThirds>>

(* the last plain semibrevis and the down-stemmed one, without a search:  *)
(* c carries ch and mrc; floor is TRUE where the code takes max(., 2.0)   *)
settleSemibreves(n, sbl, downstem, c, floor) ==
  IF downstem # 0
  THEN LET c1 == IF Len(sbl) > 0
                 THEN [c EXCEPT !.ch[Last(sbl)] = 2 * Unit, !.mrc = @ - 2 * Unit]
                 ELSE c
       IN IF floor
          THEN [c1 EXCEPT !.ch[downstem] = Max(2 * Unit, c1.mrc),
                          !.mrc = @ - Max(2 * Unit, c1.mrc)]
          ELSE [c1 EXCEPT !.ch[downstem] = c1.mrc]
  ELSE IF Len(sbl) > 0 /\ Last(sbl) = n
       THEN [c EXCEPT !.ch[Last(sbl)] = Max(2 * Unit, c.mrc),
                      !.mrc = @ - Max(2 * Unit, c.mrc)]
       ELSE IF Len(sbl) > 0
            THEN [c EXCEPT !.ch[Last(sbl)] = 2 * Unit, !.mrc = @ - 2 * Unit]
            ELSE c

(* the semibreves settled before the search of a (left, right) pair with *)
(* left # right, and the search's change_num and release                 *)
settleLast(lastSB, c1) ==
  IF lastSB # 0 THEN [c1 EXCEPT !.ch[lastSB] = 2 * Unit, !.mrc = @ - 2 * Unit]
  ELSE c1

withDownstemQP(downstem, c3, extend_list) ==
  [ch |-> [c3.ch EXCEPT ![downstem] = Max(c3.mrc, 2 * Unit)],
   mrc |-> c3.mrc - Max(c3.mrc, 2 * Unit),
   extend_num |-> Min(12 * (c3.mrc - 15), 12 * Len(extend_list)),
   release |-> downstem]

withoutStretchQP(c3, extend_list) ==
  [ch |-> c3.ch, mrc |-> c3.mrc, extend_num |-> 12 * Len(extend_list),
   release |-> 0]

beforeSearchQP(n, lastSB, downstem, c1) ==
  IF downstem # 0
  THEN withDownstemQP(downstem, settleLast(lastSB, c1), c1.extend_list)
  ELSE IF lastSB # 0 /\ lastSB = n
  THEN [ch |-> [c1.ch EXCEPT ![lastSB] = Max(c1.mrc, 2 * Unit)],
        mrc |-> c1.mrc - Max(c1.mrc, 2 * Unit),
        extend_num |-> Min(12 * (c1.mrc - 12), 12 * Len(c1.extend_list)),
        release |-> n]
  ELSE withoutStretchQP(settleLast(lastSB, c1), c1.extend_list)

(* one (left_length, right_length) iteration, both flag lists non-empty *)
iterPairQP(mOrD, measure, e, downstem, mrs, it, left_length, right_length) ==
  LET n == Len(measure)
      sbl == e.semibrevis_list
      ll == e.semiminima_left_flag_list
      rl == e.semiminima_right_flag_list
      rests == e.semiminima_rest_list
      c0 == [ch |-> assignAll(assignAll(it.st, ll, left_length), rl, right_length),
             mrc |-> mrs - left_length * Len(ll) - right_length * Len(rl),
             extend_list |-> it.extend_list, err |-> "none"]
  IN IF left_length = right_length
     THEN LET c1 == [c0 EXCEPT !.ch = assignAll(@, rests, left_length),
                               !.mrc = @ - left_length * Len(rests)]
              c2 == settleSemibreves(n, sbl, downstem, c1, TRUE)
          IN closeIteration(mOrD, measure, it, c2.ch, c2.ch, c2.mrc, {}, "none")
     ELSE LET c1 == loopRests(ll \o rl \o rests, ll, rl, rests,
                              left_length, right_length, c0)
              it1 == [it EXCEPT !.extend_list = c1.extend_list]
              lastSB == IF Len(sbl) > 0 THEN Last(sbl) ELSE 0
              c2 == beforeSearchQP(n, lastSB, downstem, c1)
          IN IF c1.err # "none"
             THEN closeIteration(mOrD, measure, it1, c1.ch, c1.ch, c1.mrc, {}, c1.err)
             ELSE IF c2.mrc >= 0
             THEN LET pm == processMeasure(mOrD, measure, c2.ch, c1.extend_list,
                                           c2.extend_num, Sixth, c2.mrc, c2.release)
                  IN closeIteration(mOrD, measure, it1, c2.ch, pm.lengths, pm.lenRem,
                                    pm.cands, pm.err)
             ELSE closeIteration(mOrD, measure, it1, c2.ch, c2.ch, c2.mrc, {}, "none")

RECURSIVE loopPairsQP(_, _, _, _, _, _, _)
loopPairsQP(mOrD, measure, e, downstem, mrs, k, it) ==
  IF k > Len(flagPairs) \/ it.err # "none" THEN it
  ELSE loopPairsQP(mOrD, measure, e, downstem, mrs, k + 1,
         iterPairQP(mOrD, measure, e, downstem, mrs, it,
                    flagPairs[k][1], flagPairs[k][2]))

(* one iteration over a single length, only one flag orientation present *)
iterSingleQP(mOrD, measure, e, downstem, mrs, it, length) ==
  LET master_list == e.semiminima_left_flag_list \o e.semiminima_right_flag_list
                     \o e.semiminima_rest_list
      c0 == [ch |-> assignAll(it.st, master_list, length),
             mrc |-> mrs - length * Len(master_list)]
      c1 == settleSemibreves(Len(measure), e.semibrevis_list, downstem, c0, FALSE)
  IN closeIteration(mOrD, measure, it, c1.ch, c1.ch, c1.mrc, {}, "none")

RECURSIVE loopSingleQP(_, _, _, _, _, _, _)
loopSingleQP(mOrD, measure, e, downstem, mrs, k, it) ==
  IF k > Len(flagLengths) \/ it.err # "none" THEN it
  ELSE loopSingleQP(mOrD, measure, e, downstem, mrs, k + 1,
         iterSingleQP(mOrD, measure, e, downstem, mrs, it, flagLengths[k]))

startSearch(e) ==
  [minimaLengths |-> e.minimaLengths, minRem |-> e.minRem, strength |-> 0,
   st |-> e.minimaLengths, aliased |-> FALSE, minRem_tracker |-> e.minRem_tracker,
   extend_list |-> <<>>, cands |-> {}, err |-> "none"]

endSearch(e, it) ==
  [e EXCEPT !.minimaLengths = it.minimaLengths, !.minRem = it.minRem,
            !.minRem_tracker = it.minRem_tracker, !.cands = it.cands,
            !.err = it.err]

lengthsQuaternariaPerfecta(mOrD, measure, e0) ==
  LET n == Len(measure)
      sbl == e0.semibrevis_list
      downstem == IF Len(e0.semibrevis_downstem) = 0 THEN 0
                  ELSE e0.semibrevis_downstem[1]
      butLast == SubSeq(sbl, 1, Len(sbl) - 1)
      e == [e0 EXCEPT !.minimaLengths = assignAll(@, butLast, 2 * Unit),
                      !.minRem = @ - 2 * Unit * Len(butLast)]
      ll == e.semiminima_left_flag_list
      rl == e.semiminima_right_flag_list
      rests == e.semiminima_rest_list
  IN IF downstem # 0 /\ downstem = n
     THEN LET all == rl \o ll \o rests
              rem == e.minRem - Half * Len(all)
          IN [e EXCEPT !.minimaLengths = [assignAll(@, all, Half) EXCEPT ![downstem] = rem],
                       !.minRem = 0]
     ELSE IF Len(rl) > 0 /\ Len(ll) > 0
     THEN endSearch(e, loopPairsQP(mOrD, measure, e, downstem, e.minRem, 1,
                                   startSearch(e)))
     ELSE IF Len(ll) = 0 /\ Len(rl) = 0
     THEN LET c == settleSemibreves(n, sbl, downstem,
                                    [ch |-> e.minimaLengths, mrc |-> e.minRem], TRUE)
          IN [e EXCEPT !.minimaLengths = c.ch, !.minRem = c.mrc,
                       !.minRem_tracker = @ \/ (c.mrc >= 0)]
     ELSE endSearch(e, loopSingleQP(mOrD, measure, e, downstem, e.minRem, 1,
                                    startSearch(e)))

(* ---------------------------------------------------------------------- *)
(* getLengthsItalian, octonaria and duodenaria ('.o.', '.d.'), at most    *)
(* one down-stemmed semibrevis                                            *)
(* ---------------------------------------------------------------------- *)
TruncDiv(a, b) == IF a >= 0 THEN a \div b ELSE -((-a) \div b)

lastOf(list) == IF Len(list) > 0 THEN Last(list) ELSE 0

startSearchOD(e, extend_list_1) ==
  [minimaLengths |-> e.minimaLengths, minRem |-> e.minRem, strength |-> 0,
   st |-> e.minimaLengths, aliased |-> FALSE, minRem_tracker |-> e.minRem_tracker,
   extend_list_1 |-> extend_list_1, extend_list_2 |-> <<>>,
   cands |-> {}, err |-> "none"]

(* the result of a search assigned to the working list and budget, then   *)
(* the end of the iteration                                               *)
closeWith(mOrD, measure, it, written, pm) ==
  closeIteration(mOrD, measure, it, written, pm.lengths, pm.lenRem, pm.cands, pm.err)

closePlain(mOrD, measure, it, ch, mrc) ==
  closeIteration(mOrD, measure, it, ch, ch, mrc, {}, "none")

(* (left, right) iteration with left = right, both flag lists non-empty *)
iterEqualOD(mOrD, measure, e, downstem, mrs, it, length) ==
  LET n == Len(measure)
      sbl == e.semibrevis_list
      lastSB == lastOf(sbl)
      flagged == e.semiminima_left_flag_list \o e.semiminima_right_flag_list
                 \o e.semiminima_rest_list
      ch0 == assignAll(it.st, flagged, length)
      mrc0 == mrs - length * Len(flagged)
  IN IF downstem # 0
     THEN IF lastSB = 0
          THEN [it EXCEPT !.err = "ZeroDivisionError"]
          ELSE LET ch1 == [ch0 EXCEPT ![lastSB] = 2 * Unit]
                   el1 == listOfSet(Append(it.extend_list_1, lastSB))
                   mrc1 == mrc0 - 2 * Unit
                   extend_num_1 == Min(12 * Len(el1), mrc1 - 4 * Unit)
                   ch2 == [ch1 EXCEPT ![downstem] = Max(mrc1, 4 * Unit)]
                   it1 == [it EXCEPT !.extend_list_1 = el1,
                                     !.minRem = @ - Max(mrc1, 4 * Unit)]
               IN closeWith(mOrD, measure, it1, ch2,
                    processMeasure(mOrD, measure, ch2, el1, extend_num_1, 2 * Unit,
                                   mrc1, downstem))
     ELSE IF lastSB # 0
     THEN IF lastSB = n
          THEN LET ch1 == [ch0 EXCEPT ![lastSB] = Max(mrc0, 2 * Unit)]
                   extend_num_1 == Min(12 * Len(it.extend_list_1),
                                       12 * TruncDiv(mrc0 - 2 * Unit, 12))
                   it1 == [it EXCEPT !.minRem = @ - Max(mrc0, 2 * Unit)]
               IN IF it1.minRem >= 0
                  THEN closeWith(mOrD, measure, it1, ch1,
                         processMeasure(mOrD, measure, ch1, it.extend_list_1,
                                        extend_num_1, 2 * Unit, mrc0, n))
                  ELSE closePlain(mOrD, measure, it1, ch1, mrc0)
          ELSE LET el1 == listOfSet(Append(it.extend_list_1, lastSB))
                   it1 == [it EXCEPT !.minimaLengths[lastSB] = 2 * Unit,
                                     !.extend_list_1 = el1,
                                     !.minRem = @ - 2 * Unit]
               IN IF it1.minRem >= 0
                  THEN closeWith(mOrD, measure, it1, ch0,
                         processMeasure(mOrD, measure, ch0, el1, 12 * Len(el1),
                                        2 * Unit, mrc0, 0))
                  ELSE closePlain(mOrD, measure, it1, ch0, mrc0)
     ELSE closePlain(mOrD, measure, it, ch0, mrc0)

(* (left, right) iteration with left # right, both flag lists non-empty *)
iterUnequalOD(mOrD, measure, e, downstem, mrs, it, left_length, right_length) ==
  LET n == Len(measure)
      sbl == e.semibrevis_list
      lastSB == lastOf(sbl)
      ll == e.semiminima_left_flag_list
      rl == e.semiminima_right_flag_list
      rests == e.semiminima_rest_list
      c1 == loopRests(ll \o rl \o rests, ll, rl, rests, left_length, right_length,
              [ch |-> assignAll(assignAll(it.st, ll, left_length), rl, right_length),
               mrc |-> mrs - left_length * Len(ll) - right_length * Len(rl),
               extend_list |-> it.extend_list_2, err |-> "none"])
      el2 == c1.extend_list
      it1 == [it EXCEPT !.extend_list_2 = el2]
      diff_list == <<2 * Unit, Sixth>>
  IN IF c1.err # "none" THEN [it1 EXCEPT !.err = c1.err]
     ELSE IF downstem # 0
     THEN (* int(0.5(minRem_changeable - 2.0)) calls a float *)
          [it1 EXCEPT !.err = "TypeError"]
     ELSE IF lastSB # 0
     THEN IF lastSB = n
          THEN LET ch1 == [c1.ch EXCEPT ![lastSB] = Max(c1.mrc, 2 * Unit)]
                   extend_num_1 == Min(12 * Len(it.extend_list_1),
                                       12 * TruncDiv(c1.mrc - 2 * Unit, 12))
                   extend_num_2 == Min(12 * Len(el2), 12 * (c1.mrc - 2 * Unit))
                   mrc1 == c1.mrc - Max(c1.mrc, 2 * Unit)
               IN closeWith(mOrD, measure, it1, ch1,
                    processMeasureMulti(mOrD, measure, ch1,
                        <<it.extend_list_1, el2>>, <<extend_num_1, extend_num_2>>,
                        diff_list, mrc1, <<n, n>>))
          ELSE LET ch1 == [c1.ch EXCEPT ![lastSB] = 2 * Unit]
                   el1 == listOfSet(Append(it.extend_list_1, lastSB))
                   it2 == [it1 EXCEPT !.extend_list_1 = el1]
               IN closeWith(mOrD, measure, it2, ch1,
                    processMeasureMulti(mOrD, measure, ch1, <<el1, el2>>,
                        <<12 * Len(el1), 12 * Len(el2)>>, diff_list,
                        c1.mrc - 2 * Unit, <<>>))
     ELSE closeWith(mOrD, measure, it1, c1.ch,
            processMeasure(mOrD, measure, c1.ch, el2, 12 * Len(el2), Sixth,
                           c1.mrc, 0))

RECURSIVE loopPairsOD(_, _, _, _, _, _, _)
loopPairsOD(mOrD, measure, e, downstem, mrs, k, it) ==
  IF k > Len(flagPairs) \/ it.err # "none" THEN it
  ELSE loopPairsOD(mOrD, measure, e, downstem, mrs, k + 1,
         IF flagPairs[k][1] = flagPairs[k][2]
         THEN iterEqualOD(mOrD, measure, e, downstem, mrs, it, flagPairs[k][1])
         ELSE iterUnequalOD(mOrD, measure, e, downstem, mrs, it,
                            flagPairs[k][1], flagPairs[k][2]))

(* one iteration over a single length, only one flag orientation present *)
iterSingleOD(mOrD, measure, e, downstem, mrs, it, length) ==
  LET n == Len(measure)
      lastSB == lastOf(e.semibrevis_list)
      master_list == e.semiminima_left_flag_list \o e.semiminima_right_flag_list
                     \o e.semiminima_rest_list
      ch0 == assignAll(it.st, master_list, length)
      mrc0 == mrs - length * Len(master_list)
  IN IF downstem # 0
     THEN LET ch1 == IF lastSB # 0 THEN [ch0 EXCEPT ![lastSB] = 2 * Unit] ELSE ch0
              el1 == IF lastSB # 0 THEN listOfSet(Append(it.extend_list_1, lastSB))
                     ELSE listOfSet(it.extend_list_1)
              mrc1 == IF lastSB # 0 THEN mrc0 - 2 * Unit ELSE mrc0
              ch2 == [ch1 EXCEPT ![downstem] = Max(mrc1, 4 * Unit)]
              mrc2 == mrc1 - Max(mrc1, 4 * Unit)
              it1 == [it EXCEPT !.extend_list_1 = el1]
          IN IF mrc2 >= 0
             THEN (* processMeasure is called without its lenRem argument *)
                  [it1 EXCEPT !.err = "TypeError"]
             ELSE closePlain(mOrD, measure, it1, ch2, mrc2)
     ELSE IF lastSB # 0
     THEN IF lastSB = n
          THEN LET ch1 == [ch0 EXCEPT ![lastSB] = Max(mrc0, 2 * Unit)]
                   extend_num_1 == Min(12 * Len(it.extend_list_1),
                                       12 * TruncDiv(mrc0 - 2 * Unit, 12))
                   mrc1 == mrc0 - Max(mrc0, 2 * Unit)
                   el1 == listOfSet(it.extend_list_1)
                   it1 == [it EXCEPT !.extend_list_1 = el1]
               IN IF mrc1 >= 0
                  THEN closeWith(mOrD, measure, it1, ch1,
                         processMeasure(mOrD, measure, ch1, el1, extend_num_1,
                                        2 * Unit, mrc1, n))
                  ELSE closePlain(mOrD, measure, it1, ch1, mrc1)
          ELSE LET ch1 == [ch0 EXCEPT ![lastSB] = 2 * Unit]
                   appended == Append(it.extend_list_1, lastSB)
                   extend_num_1 == 12 * Len(appended)
                   mrc1 == mrc0 - 2 * Unit
                   el1 == listOfSet(appended)
                   it1 == [it EXCEPT !.extend_list_1 = el1]
               IN IF mrc1 >= 0
                  THEN closeWith(mOrD, measure, it1, ch1,
                         processMeasure(mOrD, measure, ch1, el1, extend_num_1,
                                        2 * Unit, mrc1, 0))
                  ELSE closePlain(mOrD, measure, it1, ch1, mrc1)
     ELSE closePlain(mOrD, measure, it, ch0, mrc0)

RECURSIVE loopSingleOD(_, _, _, _, _, _, _)
loopSingleOD(mOrD, measure, e, downstem, mrs, k, it) ==
  IF k > Len(flagLengths) \/ it.err # "none" THEN it
  ELSE loopSingleOD(mOrD, measure, e, downstem, mrs, k + 1,
         iterSingleOD(mOrD, measure, e, downstem, mrs, it, flagLengths[k]))

(* no flagged semiminima: the semibreves are settled on minimaLengths, with *)
(* a processMeasure call made only when the remaining budget allows it     *)
searchIfRoom(mOrD, measure, e1, change, change_num, diff, release) ==
  IF e1.minRem >= 0
  THEN withSearch(e1, processMeasure(mOrD, measure, e1.minimaLengths, change,
                                     change_num, diff, e1.minRem, release))
  ELSE e1

trackRemaining(done) == [done EXCEPT !.minRem_tracker = @ \/ (done.minRem >= 0)]

noFlagsDownstemOD(mOrD, measure, e, downstem, extend_list_1, lastSB) ==
  LET ml1 == IF lastSB # 0 THEN [e.minimaLengths EXCEPT ![lastSB] = 2 * Unit]
             ELSE e.minimaLengths
      el1 == IF lastSB # 0 THEN Append(extend_list_1, lastSB) ELSE extend_list_1
      rem1 == IF lastSB # 0 THEN e.minRem - 2 * Unit ELSE e.minRem
      extend_num_1 == Min(12 * Len(el1), 12 * TruncDiv(rem1 - 4 * Unit, 12))
  IN searchIfRoom(mOrD, measure,
       [e EXCEPT !.minimaLengths = [ml1 EXCEPT ![downstem] = Max(rem1, 4 * Unit)],
                 !.minRem = rem1 - Max(rem1, 4 * Unit)],
       el1, extend_num_1, 2 * Unit, downstem)

noFlagsLastOD(mOrD, measure, e, extend_list_1, lastSB) ==
  searchIfRoom(mOrD, measure,
    [e EXCEPT !.minimaLengths[lastSB] = Max(e.minRem, 2 * Unit),
              !.minRem = @ - Max(e.minRem, 2 * Unit)],
    extend_list_1,
    Min(12 * Len(extend_list_1), 12 * TruncDiv(e.minRem - 2 * Unit, 12)),
    2 * Unit, Len(measure))

noFlagsInnerOD(mOrD, measure, e, extend_list_1, lastSB) ==
  searchIfRoom(mOrD, measure,
    [e EXCEPT !.minimaLengths[lastSB] = 2 * Unit, !.minRem = @ - 2 * Unit],
    Append(extend_list_1, lastSB), 12 * Len(Append(extend_list_1, lastSB)),
    2 * Unit, 0)

noFlagsSettleOD(mOrD, measure, e, downstem, extend_list_1, lastSB) ==
  IF downstem # 0
  THEN noFlagsDownstemOD(mOrD, measure, e, downstem, extend_list_1, lastSB)
  ELSE IF lastSB # 0
  THEN IF lastSB = Len(measure)
       THEN noFlagsLastOD(mOrD, measure, e, extend_list_1, lastSB)
       ELSE noFlagsInnerOD(mOrD, measure, e, extend_list_1, lastSB)
  ELSE e

noFlagsOD(mOrD, measure, e, downstem, extend_list_1) ==
  trackRemaining(noFlagsSettleOD(mOrD, measure, e, downstem, extend_list_1,
                                 lastOf(e.semibrevis_list)))

(* ---------------------------------------------------------------------- *)
(* getLengthsItalian, octonaria and duodenaria with two or more           *)
(* down-stemmed semibreves: these are resolved as a measure of their own  *)
(* ---------------------------------------------------------------------- *)
RECURSIVE getLengthsItalian(_, _, _, _)

(* the loop over the rests with left # right: each rest is followed by a  *)
(* search over extend_list_2, which is never cleared of duplicates        *)
placeRest(c, ind, side, left_length, right_length) ==
  IF side = "left"
  THEN [c EXCEPT !.ch[ind] = left_length, !.mrc = @ - left_length]
  ELSE IF side = "right"
  THEN [c EXCEPT !.ch[ind] = right_length, !.mrc = @ - right_length]
  ELSE [c EXCEPT !.ch[ind] = Half, !.extend_list = Append(@, ind)]

searchedRest(c1, pm) ==
  [c1 EXCEPT !.ch = pm.lengths, !.mrc = pm.lenRem, !.cands = @ \cup pm.cands,
             !.err = pm.err]

searchRest(mOrD, measure, c1) ==
  searchedRest(c1, processMeasure(mOrD, measure, c1.ch, c1.extend_list,
                                  12 * Len(c1.extend_list), Sixth, c1.mrc, 0))

restStep(mOrD, measure, c, ind, side, left_length, right_length) ==
  IF side = "IndexError" THEN [c EXCEPT !.err = "IndexError"]
  ELSE searchRest(mOrD, measure, placeRest(c, ind, side, left_length, right_length))

RECURSIVE loopRestsSearch(_, _, _, _, _, _, _, _)
loopRestsSearch(mOrD, measure, master_list, e, rests, left_length, right_length, c) ==
  IF rests = <<>> \/ c.err # "none" THEN c
  ELSE loopRestsSearch(mOrD, measure, master_list, e, Tail(rests),
                       left_length, right_length,
         restStep(mOrD, measure, c, Head(rests),
                  restNeighbours(master_list, e.semiminima_left_flag_list,
                                 e.semiminima_right_flag_list, Head(rests)),
                  left_length, right_length))

(* tempTMM.getMinimaLengths()[i] is evaluated twice for every down-stem,  *)
(* each time on the lengths the previous call left in tempTMM             *)
downstemWritten(c, ind, i, first, second) ==
  [c EXCEPT !.ch[ind] = Max(first[i], 4 * Unit),
            !.mrc = @ - Max(second[i], 4 * Unit),
            !.minimaLengthList = second]

downstemSecond(newMOrD, newMensuralMeasure, c, ind, i, first) ==
  downstemWritten(c, ind, i, first,
    getLengthsItalian(newMOrD, newMensuralMeasure, first, TRUE).minimaLengths)

RECURSIVE loopDownstems(_, _, _, _, _)
loopDownstems(newMOrD, newMensuralMeasure, downstems, i, c) ==
  IF i > Len(downstems) THEN c
  ELSE loopDownstems(newMOrD, newMensuralMeasure, downstems, i + 1,
         downstemSecond(newMOrD, newMensuralMeasure, c, downstems[i], i,
           getLengthsItalian(newMOrD, newMensuralMeasure, c.minimaLengthList,
                             TRUE).minimaLengths))

(* the down-stemmed semibreves as a measure of plain semibreves under a   *)
(* duodenaria holding what is left of the measure                         *)
subMeasure(dsl) == [k \in 1..Len(dsl) |-> MensuralNote("semibrevis")]

(* the down-stemmed semibreves resolved under a quaternaria instead *)
subDivisioneQuaternaria(lenRem) == [Divisione("q") EXCEPT !.minimaPerBrevis = lenRem]

subDivisione(lenRem) == [Divisione("d") EXCEPT !.minimaPerBrevis = lenRem]

closeDownstems(mOrD, measure, it1, cands, c2) ==
  [closeIteration(mOrD, measure, it1, c2.ch, c2.ch, c2.mrc, cands, "none")
     EXCEPT !.aliased = FALSE]

resolveDownstems(mOrD, measure, dsl, it, c1) ==
  IF c1.err # "none"
  THEN [it EXCEPT !.extend_list_2 = c1.extend_list, !.err = c1.err]
  ELSE closeDownstems(mOrD, measure, [it EXCEPT !.extend_list_2 = c1.extend_list],
         c1.cands,
         loopDownstems(subDivisione(c1.mrc), subMeasure(dsl), dsl, 1,
                       [ch |-> c1.ch, mrc |-> c1.mrc,
                        minimaLengthList |-> zeros(dsl)]))

flagsWritten(e, mrs, it, left_length, right_length) ==
  LET sbl == e.semibrevis_list
      ll == e.semiminima_left_flag_list
      rl == e.semiminima_right_flag_list
      ch0 == IF Len(sbl) > 0 THEN [it.st EXCEPT ![Last(sbl)] = 2 * Unit] ELSE it.st
      mrc0 == IF Len(sbl) > 0 THEN mrs - 2 * Unit ELSE mrs
  IN [ch |-> assignAll(assignAll(ch0, ll, left_length), rl, right_length),
      mrc |-> mrc0 - left_length * Len(ll) - right_length * Len(rl),
      extend_list |-> it.extend_list_2, cands |-> {}, err |-> "none"]

restsWritten(mOrD, measure, e, left_length, right_length, c0) ==
  IF left_length = right_length
  THEN [c0 EXCEPT !.ch = assignAll(@, e.semiminima_rest_list, left_length),
                  !.mrc = @ - left_length * Len(e.semiminima_rest_list)]
  ELSE loopRestsSearch(mOrD, measure,
         e.semiminima_left_flag_list \o e.semiminima_right_flag_list
           \o e.semiminima_rest_list,
         e, e.semiminima_rest_list, left_length, right_length, c0)

iterDownstemsOD(mOrD, measure, e, mrs, it, left_length, right_length) ==
  resolveDownstems(mOrD, measure, e.semibrevis_downstem, it,
    restsWritten(mOrD, measure, e, left_length, right_length,
                 flagsWritten(e, mrs, it, left_length, right_length)))

RECURSIVE loopDownstemPairsOD(_, _, _, _, _, _)
loopDownstemPairsOD(mOrD, measure, e, mrs, k, it) ==
  IF k > Len(flagPairs) \/ it.err # "none" THEN it
  ELSE loopDownstemPairsOD(mOrD, measure, e, mrs, k + 1,
         iterDownstemsOD(mOrD, measure, e, mrs, it, flagPairs[k][1], flagPairs[k][2]))

endSearchOD(e, it) ==
  [e EXCEPT !.minimaLengths = it.minimaLengths, !.minRem = it.minRem,
            !.minRem_tracker = it.minRem_tracker, !.cands = it.cands,
            !.err = it.err]

lengthsOctonariaDuodenaria(mOrD, measure, e0) ==
  LET n == Len(measure)
      sbl == e0.semibrevis_list
      dsl == e0.semibrevis_downstem
      extend_list_1 == SubSeq(sbl, 1, Len(sbl) - 1)
      e == [e0 EXCEPT !.minimaLengths = assignAll(@, extend_list_1, 2 * Unit),
                      !.minRem = @ - 2 * Unit * Len(extend_list_1)]
      ll == e.semiminima_left_flag_list
      rl == e.semiminima_right_flag_list
      rests == e.semiminima_rest_list
      downstem == IF Len(dsl) > 0 THEN dsl[1] ELSE 0
  IN IF Len(dsl) < 2
     THEN IF downstem # 0 /\ downstem = n
          THEN LET flagged == ll \o rl \o rests
                   ml == assignAll(assignAll(e.minimaLengths, flagged, Half),
                                   sbl, 2 * Unit)
                   rem == e.minRem - Half * Len(flagged) - 2 * Unit * Len(sbl)
               IN [e EXCEPT !.minimaLengths = [ml EXCEPT ![downstem] =
                                                 Max(rem, 2 * Unit)],
                            !.minRem = rem - Max(rem, 2 * Unit)]
          ELSE IF Len(ll) > 0 /\ Len(rl) > 0
          THEN endSearchOD(e, loopPairsOD(mOrD, measure, e, downstem, e.minRem, 1,
                                          startSearchOD(e, extend_list_1)))
          ELSE IF Len(ll) = 0 /\ Len(rl) = 0
          THEN noFlagsOD(mOrD, measure, e, downstem, extend_list_1)
          ELSE endSearchOD(e, loopSingleOD(mOrD, measure, e, downstem, e.minRem, 1,
                                           startSearchOD(e, extend_list_1)))
     ELSE endSearchOD(e, loopDownstemPairsOD(mOrD, measure, e, e.minRem, 1,
                                             startSearchOD(e, extend_list_1)))

(* ---------------------------------------------------------------------- *)
(* getLengthsItalian: one resolution of the measure under mOrD, up to the *)
(* test of minRem_tracker.  The result carries the lengths, the tracker,  *)
(* the candidates the searches enumerated and the exception raised.       *)
(* ---------------------------------------------------------------------- *)
getLengthsItalian(mOrD, measure, minimaLengthList, pDS) ==
  LET e == afterFixedPass(mOrD, measure, minimaLengthList, pDS)
      sym == mOrD.standardSymbol
  IN IF e.err # "none" THEN e
     ELSE IF sym = "i" THEN lengthsImperfecta(mOrD, measure, e)
     ELSE IF sym = "n" THEN lengthsNovenaria(mOrD, measure, e)
     ELSE IF sym \in {"q", "p"} THEN lengthsQuaternariaPerfecta(mOrD, measure, e)
     ELSE lengthsOctonariaDuodenaria(mOrD, measure, e)

(* ---------------------------------------------------------------------- *)
(* The rounding loop that closes getLengthsItalian: a length closer than  *)
(* 0.0001 to a whole number of minimae is replaced by that number         *)
(* ---------------------------------------------------------------------- *)
round(ml) == ((2 * ml + Unit) \div (2 * Unit)) * Unit

roundLengths(minimaLengths) ==
  [k \in 1..Len(minimaLengths) |->
     IF 10000 * Abs(minimaLengths[k] - round(minimaLengths[k])) < Unit
     THEN round(minimaLengths[k])
     ELSE minimaLengths[k]]

(* the Divisione of the retry: the same symbol, twice the minimaPerBrevis *)
newMOrD(mOrD) ==
  [Divisione(mOrD.standardSymbol) EXCEPT !.minimaPerBrevis = 2 * mOrD.minimaPerBrevis]

(* ---------------------------------------------------------------------- *)
(* getMinimaLengths as one call: the lengths returned, the exception      *)
(* raised, or "unbounded" for a chain of retries longer than MaxDoublings *)
(* ---------------------------------------------------------------------- *)
RECURSIVE resolveItalian(_, _, _)
settled(mOrD, measure, depth, r) ==
  IF r.err # "none" THEN [how |-> "raised", error |-> r.err, lengths |-> <<>>]
  ELSE IF r.minRem_tracker
  THEN [how |-> "returned", error |-> "none",
        lengths |-> roundLengths(r.minimaLengths)]
  ELSE IF depth = MaxDoublings
  THEN [how |-> "unbounded", error |-> "none", lengths |-> <<>>]
  ELSE resolveItalian(newMOrD(mOrD), measure, depth + 1)

resolveItalian(mOrD, measure, depth) ==
  settled(mOrD, measure, depth,
          getLengthsItalian(mOrD, measure, zeros(measure), FALSE))

minimaLengthsOf(TMM) ==
  IF TMM.mOrD.cls = "Divisione"
  THEN resolveItalian(TMM.mOrD, TMM.mensuralMeasure, 0)
  ELSE [how |-> "raised", error |-> "NameError", lengths |-> <<>>]

(* ---------------------------------------------------------------------- *)
(* Symbols in a stream.  A stream is the list of its elements; a symbol   *)
(* is named by its position in the list, which stands for its identity.   *)
(* The elements sit at distinct offsets, so that tempList.index(self) is  *)
(* the position of self.                                                  *)
(* ---------------------------------------------------------------------- *)
Punctus == [cls |-> "Punctus"]

Ligature == [cls |-> "Ligature"]

None == [cls |-> "NoneType"]

isGeneralMensuralNote(obj) ==
  obj.cls \in {"GeneralMensuralNote", "MensuralNote", "MensuralRest"}

(* list.insert(i, x) for i >= 0: past the end it appends *)
pyInsert(list, i, x) ==
  SubSeq(list, 1, Min(i, Len(list))) \o <<x>>
    \o SubSeq(list, Min(i, Len(list)) + 1, Len(list))

(* a scan that takes only the longa and the maxima as the start of a measure *)
newMeasureAtLonga(mOrD, obj) ==
  mOrD.cls = "Divisione" /\ obj.mensuralType \in {"longa", "maxima"}

(* in Italian notation a brevis, longa or maxima begins a new measure *)
newMeasureAt(mOrD, obj) ==
  mOrD.cls = "Divisione" /\ obj.mensuralType \in {"brevis", "longa", "maxima"}

(* for i in range(currentIndex-1, -1, -1); i is the Python index *)
RECURSIVE scanBefore(_, _, _, _)
scanBefore(stream, mOrD, i, mList) ==
  IF i < 0 THEN mList
  ELSE IF stream[i + 1].cls \in {"Punctus", "Ligature"} THEN mList
  ELSE IF isGeneralMensuralNote(stream[i + 1])
  THEN IF newMeasureAt(mOrD, stream[i + 1]) THEN mList
       ELSE scanBefore(stream, mOrD, i - 1, pyInsert(mList, i, i + 1))
  ELSE scanBefore(stream, mOrD, i - 1, mList)

(* for j in range(currentIndex+1, len(tempList), 1) *)
RECURSIVE scanAfter(_, _, _, _)
scanAfter(stream, mOrD, j, mList) ==
  IF j >= Len(stream) THEN mList
  ELSE IF stream[j + 1].cls \in {"Punctus", "Ligature"} THEN mList
  ELSE IF isGeneralMensuralNote(stream[j + 1])
  THEN IF newMeasureAt(mOrD, stream[j + 1]) THEN mList
       ELSE scanAfter(stream, mOrD, j + 1, pyInsert(mList, j, j + 1))
  ELSE scanAfter(stream, mOrD, j + 1, mList)

(* the closing loop: index is where self stands in mList, -1 if nowhere *)
withIndex(mList, self) ==
  [mList |-> mList,
   index |-> IF Contains(mList, self) THEN IndexOf(mList, self) - 1 ELSE -1]

(* self is a position of the stream; the site is a plain stream, not a    *)
(* stream.Measure                                                         *)
_getSurroundingMeasure(stream, inSite, mOrD, self) ==
  IF ~inSite THEN withIndex(<<>>, self)
  ELSE IF stream[self].mensuralType \in {"brevis", "longa", "maxima"}
  THEN withIndex(<<self>>, self)
  ELSE withIndex(
         scanAfter(stream, mOrD, self,
           pyInsert(Reverse(scanBefore(stream, mOrD, self - 2, <<>>)),
                    self - 1, self)),
         self)

(* a translator that always constructs, whatever the search for a mode found *)
RECURSIVE _getTranslator(_, _, _, _, _)
translatorWithoutMode(stream, inSite, mOrD, depth, sm) ==
  IF Len(sm.mList) > 0
  THEN IF sm.index = 0
       THEN [cls |-> "_TranslateMensuralMeasure", mOrD |-> mOrD,
             mensuralMeasure |-> [k \in 1..Len(sm.mList) |-> stream[sm.mList[k]]]]
       ELSE IF sm.index # -1
       THEN IF depth = 0 THEN [cls |-> "unbounded"]
            ELSE _getTranslator(stream, inSite, mOrD, sm.mList[1], depth - 1)
       ELSE None
  ELSE None

(* the body of _getTranslator once mOrD and (measure, index) are known;   *)
(* depth bounds the chain of measure[0]._getTranslator() calls            *)
translatorFor(stream, inSite, mOrD, depth, sm) ==
  IF Len(sm.mList) > 0 /\ mOrD.cls # "NoneType"
  THEN IF sm.index = 0
       THEN [cls |-> "_TranslateMensuralMeasure", mOrD |-> mOrD,
             mensuralMeasure |-> [k \in 1..Len(sm.mList) |-> stream[sm.mList[k]]]]
       ELSE IF sm.index # -1
       THEN IF depth = 0 THEN [cls |-> "unbounded"]
            ELSE _getTranslator(stream, inSite, mOrD, sm.mList[1], depth - 1)
       ELSE None
  ELSE None

_getTranslator(stream, inSite, mOrD, self, depth) ==
  translatorFor(stream, inSite, mOrD, depth,
                _getSurroundingMeasure(stream, inSite, mOrD, self))

(* tempTMM.getMinimaLengths()[index] *)
lengthAt(got, index) ==
  IF got.how # "returned" THEN [how |-> got.how, error |-> got.error, mLen |-> 0]
  ELSE IF index >= Len(got.lengths) \/ (index = -1 /\ got.lengths = <<>>)
  THEN [how |-> "raised", error |-> "IndexError", mLen |-> 0]
  ELSE [how |-> "set", error |-> "none", mLen |-> pyAt(got.lengths, index)]

(* mDur: 0.5 is 2 and 0.25 is 1, in quarters of a quarter length *)
mDurOf(mOrD) == IF mOrD.standardSymbol \in {"q", "p", "i", "n"} THEN 2 ELSE 1

(* duration.Duration(mLen*mDur), in units of 1/(4 * Unit) quarter length *)
scaled(mDur, at) ==
  [how |-> at.how, error |-> at.error, quarterLength |-> at.mLen * mDur]

(* updateDurationFromMensuration from "index = ..." on *)
durationFrom(mOrD, index, TMM) ==
  IF TMM.cls = "NoneType"
  THEN [how |-> "set", error |-> "none", quarterLength |-> 0]
  ELSE IF TMM.cls = "unbounded"
  THEN [how |-> "unbounded", error |-> "none", quarterLength |-> 0]
  ELSE IF mOrD.cls = "NoneType"
  THEN [how |-> "raised", error |-> "AttributeError", quarterLength |-> 0]
  ELSE scaled(mDurOf(mOrD), lengthAt(minimaLengthsOf(TMM), index))

(* ---------------------------------------------------------------------- *)
(* One caller resolving one measure: the state of a                       *)
(* _TranslateMensuralMeasure and of its getMinimaLengths call             *)
(* ---------------------------------------------------------------------- *)
VARIABLES
  pc,                (* "constructed", "searched" (line 983), "returned", "raised" *)
  modes,             (* modes[1]: the object given as mensurationOrDivisione;      *)
                     (* modes[k + 1]: the newMOrD allocated by the k-th retry      *)
  mensuralMeasure,   (* the list of symbols given as measure                       *)
  minimaLengthList,  (* self.minimaLengthList of the caller's translator           *)
  frame,             (* the locals of the getLengthsItalian that reached line 983  *)
  result,            (* the list getMinimaLengths returned, <<>> while none        *)
  error,             (* the exception that ended the call, "none" while none       *)
  earlier,           (* what the call before this one returned to the caller       *)
  runs,              (* translators the caller has constructed for this measure    *)
  tempList,          (* the stream: the active site of the symbols                 *)
  context,           (* the mode the outward search finds from the stream          *)
  attached,          (* whether the symbols have the stream as a site              *)
  duration,          (* duration[k]: the duration of tempList[k], -1 while unset   *)
  outcome,           (* how the last updateDurationFromMensuration ended           *)
  measured,          (* what self._getSurroundingMeasure() gave the last call, and *)
                     (* the position of that self in the stream                    *)
  tempTMM,           (* what self._getTranslator() gave the last call              *)
  pitches,           (* Ligature.pitches, as heights on the staff                  *)
  noteheadShape,     (* Ligature.noteheadShape: position k is index k - 1          *)
  stems,             (* Ligature.stems: <<direction, orientation>> per index       *)
  maximaNotes,       (* Ligature.maximaNotes                                       *)
  reversedNotes,     (* Ligature.reversedNotes                                     *)
  _notes,            (* Ligature._notes: the mensural types of the expansion       *)
  note,              (* a MensuralNote on its own: its type, stems and flags       *)
  typeAssigned       (* whether note.mensuralType was assigned since construction  *)

vars == <<pc, modes, mensuralMeasure, minimaLengthList, frame, result, error,
          earlier, runs, tempList, context, attached, duration, outcome,
          measured, tempTMM,
          pitches, noteheadShape, stems, maximaNotes, reversedNotes, _notes,
          note, typeAssigned>>

resolverVars == <<pc, modes, mensuralMeasure, minimaLengthList, frame, result,
                  error, earlier, runs>>

streamVars == <<tempList, context, attached, duration, outcome, measured, tempTMM>>

ligatureVars == <<pitches, noteheadShape, stems, maximaNotes, reversedNotes, _notes>>

noteVars == <<note, typeAssigned>>

(* no symbol has been asked for its measure yet *)
NotMeasured == [self |-> 0, mList |-> <<>>, index |-> -1]

doublings == Len(modes) - 1

NoFrame ==
  [minimaLengths |-> <<>>, minRem |-> 0, minRem_tracker |-> FALSE, cands |-> {},
   err |-> "none"]

(* the symbols measures are drawn from *)
Symbols ==
  {MensuralNote("maxima"), MensuralNote("longa"), MensuralNote("brevis"),
   MensuralNote("semibrevis"),
   appendStem(MensuralNote("semibrevis"), "down"),
   appendStem(MensuralNote("semibrevis"), "side"),
   MensuralRest("semibrevis"),
   MensuralNote("minima"),
   MensuralNote("semiminima"),
   setFlagUp(MensuralNote("semiminima"), "left"),
   MensuralRest("semiminima")}

Measures == UNION {[1..n -> Symbols] : n \in 1..MaxLen}

Modes == {Divisione(s) : s \in DivisioneSymbols} \cup {Mensuration, None}

(* the locals kept from a finished search *)
frameOf(r) ==
  [minimaLengths |-> r.minimaLengths, minRem |-> r.minRem,
   minRem_tracker |-> r.minRem_tracker, cands |-> r.cands, err |-> r.err]

(* __init__: a translator for mode and measure, not yet asked for lengths *)
ResolverInit ==
  /\ pc = "constructed"
  /\ modes \in {<<m>> : m \in Modes}
  /\ mensuralMeasure \in Measures
  /\ minimaLengthList = zeros(mensuralMeasure)
  /\ frame = NoFrame
  /\ result = <<>>
  /\ error = "none"
  /\ earlier = <<>>
  /\ runs = 1

StreamIdle ==
  /\ tempList = <<>>
  /\ context = None
  /\ attached = FALSE
  /\ duration = <<>>
  /\ outcome = "idle"
  /\ measured = NotMeasured
  /\ tempTMM = None

(* no ligature is under construction *)
LigatureIdle ==
  /\ pitches = <<>>
  /\ noteheadShape = <<>>
  /\ stems = <<>>
  /\ maximaNotes = <<>>
  /\ reversedNotes = <<>>
  /\ _notes = <<>>

(* no note is under test on its own *)
NoteIdle ==
  /\ note = None
  /\ typeAssigned = FALSE

Init == ResolverInit /\ StreamIdle /\ LigatureIdle /\ NoteIdle

(* a search that raised ends the call; otherwise control is at line 983 *)
afterSearch(r) ==
  /\ frame' = frameOf(r)
  /\ pc' = IF r.err # "none" THEN "raised" ELSE "searched"
  /\ error' = r.err

(* getMinimaLengths on a Divisione: getLengthsItalian up to line 983 *)
getMinimaLengths ==
  /\ pc = "constructed"
  /\ modes[1].cls = "Divisione"
  /\ afterSearch(getLengthsItalian(modes[1], mensuralMeasure, minimaLengthList, FALSE))
  /\ UNCHANGED <<modes, mensuralMeasure, minimaLengthList, result, earlier, runs>>
  /\ UNCHANGED <<streamVars, ligatureVars, noteVars>>

(* a getLengthsFrench that hands back the untouched list *)
getLengthsFrenchSilently ==
  /\ pc = "constructed"
  /\ modes[1].cls = "Mensuration"
  /\ pc' = "returned"
  /\ result' = minimaLengthList
  /\ UNCHANGED <<modes, mensuralMeasure, minimaLengthList, frame, error, earlier, runs>>
  /\ UNCHANGED <<streamVars, ligatureVars, noteVars>>

(* getMinimaLengths on a Mensuration: the name selfgetLengthsFrench is    *)
(* not defined                                                            *)
getLengthsFrench ==
  /\ pc = "constructed"
  /\ modes[1].cls = "Mensuration"
  /\ pc' = "raised"
  /\ error' = "NameError"
  /\ UNCHANGED <<modes, mensuralMeasure, minimaLengthList, frame, result, earlier, runs>>
  /\ UNCHANGED <<streamVars, ligatureVars, noteVars>>

(* getMinimaLengths on anything else: the raise statement formats the     *)
(* undefined name mensurationOrDivisione                                  *)
notRecognized ==
  /\ pc = "constructed"
  /\ modes[1].cls \notin {"Divisione", "Mensuration"}
  /\ pc' = "raised"
  /\ error' = "NameError"
  /\ UNCHANGED <<modes, mensuralMeasure, minimaLengthList, frame, result, earlier, runs>>
  /\ UNCHANGED <<streamVars, ligatureVars, noteVars>>

(* a retry that doubles the minimaPerBrevis of the divisione it was given *)
fallbackInPlace ==
  /\ pc = "searched"
  /\ ~frame.minRem_tracker
  /\ doublings < MaxDoublings
  /\ modes' = Append([modes EXCEPT ![1] = newMOrD(modes[Len(modes)])],
                     newMOrD(modes[Len(modes)]))
  /\ afterSearch(getLengthsItalian(newMOrD(modes[Len(modes)]), mensuralMeasure,
                                   zeros(mensuralMeasure), FALSE))
  /\ UNCHANGED <<mensuralMeasure, minimaLengthList, result, earlier, runs>>
  /\ UNCHANGED <<streamVars, ligatureVars, noteVars>>

(* if not minRem_tracker: a new translator on a new Divisione of twice    *)
(* the minimaPerBrevis resolves the same measure                          *)
fallback ==
  /\ pc = "searched"
  /\ ~frame.minRem_tracker
  /\ doublings < MaxDoublings
  /\ modes' = Append(modes, newMOrD(modes[Len(modes)]))
  /\ afterSearch(getLengthsItalian(newMOrD(modes[Len(modes)]), mensuralMeasure,
                                   zeros(mensuralMeasure), FALSE))
  /\ UNCHANGED <<mensuralMeasure, minimaLengthList, result, earlier, runs>>
  /\ UNCHANGED <<streamVars, ligatureVars, noteVars>>

(* the rounding loop and the returns through every enclosing translator *)
returnLengths ==
  /\ pc = "searched"
  /\ frame.minRem_tracker
  /\ result' = roundLengths(frame.minimaLengths)
  /\ minimaLengthList' = roundLengths(frame.minimaLengths)
  /\ pc' = "returned"
  /\ UNCHANGED <<modes, mensuralMeasure, frame, error, earlier, runs>>
  /\ UNCHANGED <<streamVars, ligatureVars, noteVars>>

(* a caller that hands the first translator's list to the second *)
resolveAgainOnSameList ==
  /\ pc = "returned"
  /\ runs < MaxRuns
  /\ pc' = "constructed"
  /\ modes' = <<modes[1]>>
  /\ frame' = NoFrame
  /\ earlier' = result
  /\ result' = <<>>
  /\ runs' = runs + 1
  /\ UNCHANGED <<mensuralMeasure, minimaLengthList, error>>
  /\ UNCHANGED <<streamVars, ligatureVars, noteVars>>

(* the caller constructs another translator for the same mode and measure *)
resolveAgain ==
  /\ pc = "returned"
  /\ runs < MaxRuns
  /\ pc' = "constructed"
  /\ modes' = <<modes[1]>>
  /\ minimaLengthList' = zeros(mensuralMeasure)
  /\ frame' = NoFrame
  /\ earlier' = result
  /\ result' = <<>>
  /\ runs' = runs + 1
  /\ UNCHANGED <<mensuralMeasure, error>>
  /\ UNCHANGED <<streamVars, ligatureVars, noteVars>>

Next ==
  \/ getMinimaLengths
  \/ getLengthsFrench
  \/ notRecognized
  \/ fallback
  \/ returnLengths
  \/ resolveAgain

Spec == Init /\ [][Next]_vars

(* ---------------------------------------------------------------------- *)
(* Symbols of one stream asked for their durations                        *)
(* ---------------------------------------------------------------------- *)
StreamItems ==
  {Punctus, Ligature, MensuralNote("brevis"), MensuralNote("semibrevis"),
   MensuralNote("minima"), MensuralRest("semibrevis")}

Streams == UNION {[1..n -> StreamItems] : n \in 1..MaxLen}

ResolverIdle ==
  /\ pc = "idle"
  /\ modes = <<>>
  /\ mensuralMeasure = <<>>
  /\ minimaLengthList = <<>>
  /\ frame = NoFrame
  /\ result = <<>>
  /\ earlier = <<>>
  /\ runs = 0

(* the stream as built: the mode the outward search will find is that of  *)
(* the sign placed before the symbols, or None; no duration is set yet    *)
StreamInit ==
  /\ ResolverIdle
  /\ tempList \in Streams
  /\ context \in Modes
  /\ attached \in BOOLEAN
  /\ duration = [k \in 1..Len(tempList) |-> -1]
  /\ outcome = "idle"
  /\ error = "none"
  /\ measured = NotMeasured
  /\ tempTMM = None
  /\ LigatureIdle
  /\ NoteIdle

(* measure, index = self._getSurroundingMeasure(), kept with self *)
measuredBy(self, sm) == [self |-> self, mList |-> sm.mList, index |-> sm.index]

(* self.duration = ... when the call got that far, the exception otherwise *)
durationSet(self, d) ==
  /\ outcome' = d.how
  /\ error' = d.error
  /\ duration' = IF d.how = "set" THEN [duration EXCEPT ![self] = d.quarterLength]
                 ELSE duration

(* updateDurationFromMensuration() on the symbol at position self, with   *)
(* no mensurationOrDivisione given; _gettingDuration is never True        *)
updateDurationFromMensuration(self) ==
  /\ outcome \in {"idle", "set"}
  /\ isGeneralMensuralNote(tempList[self])
  /\ duration[self] = -1
  /\ measured' = measuredBy(self,
                    _getSurroundingMeasure(tempList, attached, context, self))
  /\ tempTMM' = _getTranslator(tempList, attached, context, self, Len(tempList))
  /\ durationSet(self, durationFrom(context, measured'.index, tempTMM'))
  /\ UNCHANGED <<pc, modes, mensuralMeasure, minimaLengthList, frame, result,
                 earlier, runs>>
  /\ UNCHANGED <<tempList, context, attached>>
  /\ UNCHANGED <<ligatureVars, noteVars>>

StreamNext == \E self \in 1..Len(tempList) : updateDurationFromMensuration(self)

StreamSpec == StreamInit /\ [][StreamNext]_vars

(* ---------------------------------------------------------------------- *)
(* One Ligature and the calls made on it.  Python's None is written       *)
(* "None"; the strings 'None' and 'none' are written "'None'" and "none". *)
(* ---------------------------------------------------------------------- *)
_ligatureLength == Len(pitches)

(* the string 'square' that __init__ stores: shape[0] is its first letter *)
squareString == <<"s", "q", "u", "a", "r", "e">>

getNoteheadShape(index) == noteheadShape[index + 1][1]

isMaxima(index) == maximaNotes[index + 1]

getStem(index) == stems[index + 1]

isReversed(index) == reversedNotes[index + 1]

LigaturePitches ==
  UNION {[1..n -> 1..MaxLigature] : n \in 2..MaxLigature}

LigatureInit ==
  /\ ResolverIdle
  /\ StreamIdle
  /\ error = "none"
  /\ pitches \in LigaturePitches
  /\ noteheadShape = [ind \in 1..Len(pitches) |-> squareString]
  /\ stems = [ind \in 1..Len(pitches) |-> <<"None", "None">>]
  /\ maximaNotes = [ind \in 1..Len(pitches) |-> FALSE]
  /\ reversedNotes = [ind \in 1..Len(pitches) |-> FALSE]
  /\ _notes = <<>>
  /\ NoteIdle

(* the notes appended for index 0 *)
firstNotes ==
  IF getStem(0)[1] = "up" THEN <<"semibrevis", "semibrevis">>
  ELSE IF getStem(0)[1] = "down"
  THEN IF getNoteheadShape(0) = "oblique" THEN <<"brevis">>
       ELSE IF pitches[2] < pitches[1] THEN <<"brevis">> ELSE <<"longa">>
  ELSE IF isMaxima(0) THEN <<"maxima">>
  ELSE IF getNoteheadShape(0) = "oblique" THEN <<"longa">>
  ELSE IF pitches[2] < pitches[1] THEN <<"longa">> ELSE <<"brevis">>

(* the note appended for the last index *)
lastNote(ind) ==
  IF getStem(ind)[1] = "down"
  THEN IF getNoteheadShape(ind) = "oblique" THEN "longa"
       ELSE IF pitches[ind] < pitches[ind + 1] THEN "longa" ELSE "brevis"
  ELSE IF isMaxima(ind) THEN "maxima"
  ELSE IF getNoteheadShape(ind) = "oblique" THEN "brevis"
  ELSE IF pitches[ind] < pitches[ind + 1] THEN "brevis" ELSE "longa"

(* a loop in which an up-stem yields two notes and moves on by one index *)
RECURSIVE innerNotesByOne(_, _)
innerNotesByOne(ind, notes) ==
  IF ind < _ligatureLength - 1
  THEN IF getStem(ind)[1] = "up"
       THEN innerNotesByOne(ind + 1, notes \o <<"semibrevis", "semibrevis">>)
       ELSE IF getStem(ind)[1] = "down"
       THEN innerNotesByOne(ind + 1, Append(notes, "longa"))
       ELSE IF isMaxima(ind) THEN innerNotesByOne(ind + 1, Append(notes, "maxima"))
       ELSE innerNotesByOne(ind + 1, Append(notes, "brevis"))
  ELSE IF ind = _ligatureLength - 1 THEN Append(notes, lastNote(ind))
  ELSE notes

(* the while loop and the closing if *)
RECURSIVE innerNotes(_, _)
innerNotes(ind, notes) ==
  IF ind < _ligatureLength - 1
  THEN IF getStem(ind)[1] = "up"
       THEN innerNotes(ind + 2, notes \o <<"semibrevis", "semibrevis">>)
       ELSE IF getStem(ind)[1] = "down"
       THEN innerNotes(ind + 1, Append(notes, "longa"))
       ELSE IF isMaxima(ind) THEN innerNotes(ind + 1, Append(notes, "maxima"))
       ELSE innerNotes(ind + 1, Append(notes, "brevis"))
  ELSE IF ind = _ligatureLength - 1 THEN Append(notes, lastNote(ind))
  ELSE notes

_expandLigature ==
  innerNotes(IF getStem(0)[1] = "up" THEN 2 ELSE 1, firstNotes)

(* a call on the ligature that ends in the exception e *)
ligatureRaises(e) ==
  /\ error' = e
  /\ UNCHANGED <<noteheadShape, stems, maximaNotes, reversedNotes, _notes>>

(* what no call on a ligature touches *)
ligatureFrame ==
  UNCHANGED <<pc, modes, mensuralMeasure, minimaLengthList, frame, result,
              earlier, runs, streamVars, pitches, noteVars>>

(* the notes property *)
_getNotes ==
  /\ pitches # <<>>
  /\ _notes' = IF _notes = <<>> THEN _expandLigature ELSE _notes
  /\ error' = "none"
  /\ UNCHANGED <<noteheadShape, stems, maximaNotes, reversedNotes>>
  /\ ligatureFrame

makeOblique(startIndex) ==
  /\ IF startIndex < _ligatureLength - 1
     THEN IF \/ noteheadShape[startIndex + 1] = <<"oblique", "end">>
             \/ noteheadShape[startIndex + 2] = <<"oblique", "start">>
             \/ isMaxima(startIndex)
             \/ isMaxima(startIndex + 1)
          THEN ligatureRaises("MedRenException")
          ELSE /\ noteheadShape' =
                    [noteheadShape EXCEPT ![startIndex + 1] = <<"oblique", "start">>,
                                          ![startIndex + 2] = <<"oblique", "end">>]
               /\ _notes' = <<>>
               /\ error' = "none"
               /\ UNCHANGED <<stems, maximaNotes, reversedNotes>>
     ELSE ligatureRaises("MedRenException")
  /\ ligatureFrame

makeSquare(index) ==
  /\ IF index < _ligatureLength
     THEN /\ noteheadShape' =
               IF noteheadShape[index + 1][1] = "oblique"
               THEN IF noteheadShape[index + 1][2] = "start"
                    THEN [noteheadShape EXCEPT ![index + 1] = <<"square">>,
                                               ![index + 2] = <<"square">>]
                    ELSE [noteheadShape EXCEPT ![index + 1] = <<"square">>,
                                               ![index] = <<"square">>]
               ELSE noteheadShape
          /\ _notes' = <<>>
          /\ error' = "none"
          /\ UNCHANGED <<stems, maximaNotes, reversedNotes>>
     ELSE ligatureRaises("NameError")
  /\ ligatureFrame

(* a setMaxima that looks at the notehead only *)
setMaximaWhateverStems(index, value) ==
  /\ IF index < _ligatureLength
     THEN IF value /\ getNoteheadShape(index) = "oblique"
          THEN ligatureRaises("MedRenException")
          ELSE /\ maximaNotes' = [maximaNotes EXCEPT ![index + 1] = value]
               /\ _notes' = <<>>
               /\ error' = "none"
               /\ UNCHANGED <<noteheadShape, stems, reversedNotes>>
     ELSE ligatureRaises("MedRenException")
  /\ ligatureFrame

setMaxima(index, value) ==
  /\ IF index < _ligatureLength
     THEN IF /\ value
             /\ \/ getNoteheadShape(index) = "oblique"
                \/ getStem(index) # <<"None", "None">>
                \/ (index > 0 /\ getStem(index - 1)[1] = "up")
          THEN ligatureRaises("MedRenException")
          ELSE /\ maximaNotes' = [maximaNotes EXCEPT ![index + 1] = value]
               /\ _notes' = <<>>
               /\ error' = "none"
               /\ UNCHANGED <<noteheadShape, stems, reversedNotes>>
     ELSE ligatureRaises("MedRenException")
  /\ ligatureFrame

(* the stem of the neighbour at index, (None, None) beyond either end *)
neighbourStem(index) ==
  IF index < 0 \/ index > _ligatureLength - 1 THEN <<"None", "None">>
  ELSE getStem(index)

(* a test that lets an up-stem stand on the last note as well *)
stemPermittedOnLast(index, direction, orientation) ==
  LET prevStem == neighbourStem(index - 1)
      nextStem == neighbourStem(index + 1)
  IN  IF orientation = "None" /\ direction = "None" THEN TRUE
      ELSE /\ orientation \in {"left", "right"}
           /\ \/ (orientation = "left" /\ prevStem[2] # "right")
              \/ (orientation = "right" /\ nextStem[2] # "left")
           /\ \/ direction = "down" /\ prevStem[1] # "up"
              \/ /\ direction = "up"
                 /\ prevStem[1] # "up"
                 /\ nextStem[1] = "None"

(* whether setStem stores (direction, orientation) at index, for an index *)
(* in range whose note is not a maxima                                    *)
stemPermitted(index, direction, orientation) ==
  LET prevStem == neighbourStem(index - 1)
      nextStem == neighbourStem(index + 1)
  IN  IF orientation = "None" /\ direction = "None" THEN TRUE
      ELSE /\ orientation \in {"left", "right"}
           /\ \/ (orientation = "left" /\ prevStem[2] # "right")
              \/ (orientation = "right" /\ nextStem[2] # "left")
           /\ \/ direction = "down" /\ prevStem[1] # "up"
              \/ /\ direction = "up"
                 /\ index < _ligatureLength - 1
                 /\ prevStem[1] # "up"
                 /\ nextStem[1] = "None"
                 /\ ~isMaxima(index + 1)

setStem(index, direction, orientation) ==
  /\ IF orientation = "'None'" THEN ligatureRaises("KeyError")
     ELSE IF index >= _ligatureLength THEN ligatureRaises("MedRenException")
     ELSE IF isMaxima(index) THEN ligatureRaises("MedRenException")
     ELSE IF stemPermitted(index, IF direction = "none" THEN "None" ELSE direction,
                           orientation)
     THEN /\ stems' = [stems EXCEPT ![index + 1] =
                         <<IF direction = "none" THEN "None" ELSE direction,
                           orientation>>]
          /\ _notes' = <<>>
          /\ error' = "none"
          /\ UNCHANGED <<noteheadShape, maximaNotes, reversedNotes>>
     ELSE ligatureRaises("MedRenException")
  /\ ligatureFrame

setReverse(endIndex, value) ==
  /\ IF endIndex < _ligatureLength
     THEN IF ~value THEN ligatureRaises("NameError")
          ELSE IF endIndex > 0
          THEN IF /\ ~isReversed(endIndex - 1)
                  /\ getStem(endIndex - 1)[1] # "up"
                  /\ getStem(endIndex) = <<"down", "left">>
                  /\ pitches[endIndex + 1] > pitches[endIndex]
               THEN /\ reversedNotes' = [reversedNotes EXCEPT ![endIndex + 1] = TRUE]
                    /\ error' = "none"
                    /\ UNCHANGED <<noteheadShape, stems, maximaNotes, _notes>>
               ELSE ligatureRaises("MedRenException")
          ELSE ligatureRaises("MedRenException")
     ELSE ligatureRaises("MedRenException")
  /\ ligatureFrame

Directions == {"up", "down", "none", "None"}

Orientations == {"left", "right", "'None'", "None"}

LigatureNext ==
  \/ _getNotes
  \/ \E index \in 0.._ligatureLength :
       \/ makeOblique(index)
       \/ makeSquare(index)
       \/ \E value \in BOOLEAN : setMaxima(index, value) \/ setReverse(index, value)
       \/ \E direction \in Directions, orientation \in Orientations :
            setStem(index, direction, orientation)

LigatureSpec == LigatureInit /\ [][LigatureNext]_vars

(* ---------------------------------------------------------------------- *)
(* One translator asked for its lengths more than once                    *)
(* ---------------------------------------------------------------------- *)
(* getMinimaLengths called again on the translator that has returned:     *)
(* self.minimaLengthList holds the list of the call before (line 281)     *)
getMinimaLengthsAgain ==
  /\ pc = "returned"
  /\ afterSearch(getLengthsItalian(modes[1], mensuralMeasure, minimaLengthList, FALSE))
  /\ modes' = <<modes[1]>>
  /\ earlier' = result
  /\ result' = <<>>
  /\ UNCHANGED <<mensuralMeasure, minimaLengthList, runs>>
  /\ UNCHANGED <<streamVars, ligatureVars, noteVars>>

RepeatNext ==
  \/ getMinimaLengths
  \/ getLengthsFrench
  \/ notRecognized
  \/ fallback
  \/ returnLengths
  \/ getMinimaLengthsAgain

RepeatSpec == Init /\ [][RepeatNext]_vars

(* ---------------------------------------------------------------------- *)
(* The measures of the class docstring of _TranslateMensuralMeasure, and  *)
(* the same symbols with other stems and flags                            *)
(* ---------------------------------------------------------------------- *)
SB == MensuralNote("semibrevis")

SBdown == appendStem(MensuralNote("semibrevis"), "down")

M == MensuralNote("minima")

SM == MensuralNote("semiminima")

SMleft == setFlagUp(MensuralNote("semiminima"), "left")

SMrest == MensuralRest("semiminima")

ExampleMeasures ==
  {<<SB, M, SB>>,
   <<SBdown, M, SB>>,
   <<M, SMleft, SMleft, SM, SMrest, SM>>,
   <<M, SM, SM, SM, SMrest, SM>>,
   <<M, SBdown, SM, SM>>,
   <<SB, SBdown, SB>>,
   <<SB, SB>>,
   <<SB, SB, SB, SB>>,
   <<SB, SBdown, SBdown, SB>>,
   <<SBdown, SBdown, SB, SB>>}

(* a translator constructed for one of the measures and any mode *)
ExampleInit ==
  /\ pc = "constructed"
  /\ modes \in {<<m>> : m \in Modes}
  /\ mensuralMeasure \in ExampleMeasures
  /\ minimaLengthList = zeros(mensuralMeasure)
  /\ frame = NoFrame
  /\ result = <<>>
  /\ error = "none"
  /\ earlier = <<>>
  /\ runs = 1
  /\ StreamIdle
  /\ LigatureIdle
  /\ NoteIdle

ExampleSpec == ExampleInit /\ [][Next]_vars

(* ---------------------------------------------------------------------- *)
(* MensuralNote: stems and flags of one note                              *)
(* ---------------------------------------------------------------------- *)
(* MensuralNote('A', mensuralType), nothing called on it yet *)
NoteInit ==
  /\ ResolverIdle
  /\ StreamIdle
  /\ LigatureIdle
  /\ error = "none"
  /\ note \in {MensuralNote(t) : t \in _validMensuralTypes}
  /\ typeAssigned = FALSE

(* what no call on the note touches *)
noteFrame ==
  UNCHANGED <<pc, modes, mensuralMeasure, minimaLengthList, frame, result,
              earlier, runs, streamVars, ligatureVars>>

(* the call returned obj as the note *)
noteBecomes(obj) ==
  /\ note' = obj
  /\ error' = "none"

(* the call raised e before any assignment *)
noteRaises(e) ==
  /\ note' = note
  /\ error' = e

(* MensuralNote.setStem(direction) without the length test of the side stem *)
stemOfNoteUnbounded(obj, direction) ==
  IF direction = "None"
  THEN [obj EXCEPT !.stems = IF obj.mensuralType \in {"minima", "semiminima"}
                             THEN <<"up">> ELSE <<>>]
  ELSE IF obj.mensuralType \in {"brevis", "longa", "maxima"} THEN None
  ELSE IF direction = "down"
  THEN IF Len(obj.stems) > 1 THEN None ELSE appendStem(obj, direction)
  ELSE IF direction = "side"
  THEN IF obj.mensuralType \notin {"semibrevis", "minima"} THEN None
       ELSE appendStem(obj, direction)
  ELSE None

(* the note after setStem(direction), None when the call raises; the note *)
(* has no dots, so getNumDots() > 0 is false                              *)
stemOfNote(obj, direction) ==
  IF direction = "None"
  THEN [obj EXCEPT !.stems = IF obj.mensuralType \in {"minima", "semiminima"}
                             THEN <<"up">> ELSE <<>>]
  ELSE IF obj.mensuralType \in {"brevis", "longa", "maxima"} THEN None
  ELSE IF direction = "down"
  THEN IF Len(obj.stems) > 1 THEN None ELSE appendStem(obj, direction)
  ELSE IF direction = "side"
  THEN IF obj.mensuralType \notin {"semibrevis", "minima"} THEN None
       ELSE IF Len(obj.stems) > 1 THEN None
       ELSE appendStem(obj, direction)
  ELSE None

(* note.setStem(direction) *)
setStemOfNote(direction) ==
  /\ note # None
  /\ IF stemOfNote(note, direction) = None
     THEN noteRaises("MedRenException")
     ELSE noteBecomes(stemOfNote(note, direction))
  /\ UNCHANGED typeAssigned
  /\ noteFrame

(* the note after setFlag(stemDirection, orientation), None when it raises *)
flagOfNote(obj, stemDirection, orientation) ==
  IF stemDirection = "up"
  THEN IF obj.mensuralType # "semiminima" THEN None
       ELSE IF orientation = "left" THEN setFlagUp(obj, "left")
       ELSE IF orientation \in {"right", "None"} THEN setFlagUp(obj, "right")
       ELSE None
  ELSE IF stemDirection = "down"
  THEN IF \E k \in 1..Len(obj.stems) : obj.stems[k] = "down"
       THEN IF orientation \in {"left", "right", "None"}
            THEN setFlagDown(obj, orientation)
            ELSE None
       ELSE None
  ELSE None

(* note.setFlag(stemDirection, orientation) *)
setFlag(stemDirection, orientation) ==
  /\ note # None
  /\ IF flagOfNote(note, stemDirection, orientation) = None
     THEN noteRaises("MedRenException")
     ELSE noteBecomes(flagOfNote(note, stemDirection, orientation))
  /\ UNCHANGED typeAssigned
  /\ noteFrame

(* note.mensuralType = mensuralTypeOrAbbr: the elif reads a name that is  *)
(* not defined, so whatever is not a full type name ends in a NameError   *)
_setMensuralType(mensuralTypeOrAbbr) ==
  /\ note # None
  /\ IF mensuralTypeOrAbbr \in _validMensuralTypes
     THEN /\ noteBecomes([note EXCEPT !.mensuralType = mensuralTypeOrAbbr])
          /\ typeAssigned' = TRUE
     ELSE /\ noteRaises("NameError")
          /\ UNCHANGED typeAssigned
  /\ noteFrame

StemDirections == {"None", "down", "side", "up"}

FlagOrientations == {"left", "right", "None", "up"}

NoteNext ==
  \/ \E direction \in StemDirections : setStemOfNote(direction)
  \/ \E stemDirection \in StemDirections, orientation \in FlagOrientations :
       setFlag(stemDirection, orientation)
  \/ \E mensuralTypeOrAbbr \in _validMensuralTypes \cup {"SB"} :
       _setMensuralType(mensuralTypeOrAbbr)

NoteSpec == NoteInit /\ [][NoteNext]_vars

(* ---------------------------------------------------------------------- *)
(* Properties                                                             *)
(* ---------------------------------------------------------------------- *)
RECURSIVE Pow2(_)
Pow2(n) == IF n = 0 THEN 1 ELSE 2 * Pow2(n - 1)

(* the divisione of the translator whose search produced the lengths *)
mOrDInEffect == modes[Len(modes)]

FixedFactor(t) == IF t = "maxima" THEN 4 ELSE IF t = "longa" THEN 2 ELSE 1

FixedPositions ==
  {k \in 1..Len(mensuralMeasure) :
     mensuralMeasure[k].mensuralType \in {"brevis", "longa", "maxima"}}

(* C1, as stated: lengths returned without any retry sum to the           *)
(* minimaPerBrevis of the divisione.  The code does not keep this: a       *)
(* single semibrevis under senaria imperfecta is returned with length 0.  *)
C1_SumWithoutFallback ==
  (pc = "returned" /\ doublings = 0)
    => SumSeq(result) = modes[1].minimaPerBrevis

C3_RetriesEnd ==
  ~(pc = "searched" /\ ~frame.minRem_tracker /\ doublings = MaxDoublings)

(* C4, as stated: minimaPerBrevis is doubled at most once in a resolution. *)
C4_AtMostOneRetry == doublings <= 1

(* C5, as stated: lengths returned after a retry sum to twice the          *)
(* minimaPerBrevis of the divisione given.                                *)
C5_SumAfterFallback ==
  (pc = "returned" /\ doublings >= 1)
    => SumSeq(result) = 2 * modes[1].minimaPerBrevis

(* C6, as stated: the returned lengths score at least as high as every     *)
(* candidate the search enumerated with a nonnegative remaining budget.   *)
C6_ReturnedMaximises ==
  (pc = "returned" /\ ~evaluateRaises(mensuralMeasure, result))
    => \A c \in frame.cands :
         c.rem >= 0
           => _evaluateMeasure(mOrDInEffect, mensuralMeasure, result)
                >= _evaluateMeasure(mOrDInEffect, mensuralMeasure, c.lengths)

C8_InputsUnchanged ==
  [][mensuralMeasure' = mensuralMeasure /\ modes'[1] = modes[1]]_vars

(* C8: lengths were returned after a retry under octonaria or duodenaria   *)
(* for a measure with two down-stemmed semibreves.                        *)
C8_Witness ==
  /\ pc = "returned"
  /\ doublings >= 1
  /\ modes[1].standardSymbol \in {"o", "d"}
  /\ Cardinality({k \in 1..Len(mensuralMeasure) :
                    /\ mensuralMeasure[k].mensuralType = "semibrevis"
                    /\ Contains(mensuralMeasure[k].stems, "down")}) >= 2

(* C9: under a Mensuration, or under what is neither Divisione nor         *)
(* Mensuration, getMinimaLengths ends in an exception and returns no list. *)
C9_UnsupportedModeRaises ==
  (modes[1].cls # "Divisione" /\ pc # "constructed")
    => (pc = "raised" /\ error # "none" /\ result = <<>>)

(* C9: getMinimaLengths was called under a Mensuration and has ended. *)
C9_Witness == pc = "raised" /\ modes[1].cls = "Mensuration"

FixedTypes == {"brevis", "longa", "maxima"}

(* what ends a measure: a Punctus, a Ligature and, under a Divisione, a    *)
(* brevis, longa or maxima                                                *)
EndsMeasure(obj) ==
  \/ obj.cls \in {"Punctus", "Ligature"}
  \/ /\ context.cls = "Divisione"
     /\ isGeneralMensuralNote(obj)
     /\ obj.mensuralType \in FixedTypes

Between(a, b) == IF a <= b THEN a..b ELSE b..a

(* the positions of the symbols that no end of measure separates from self *)
RunAround(self) ==
  IF EndsMeasure(tempList[self]) THEN {self}
  ELSE {k \in 1..Len(tempList) :
          /\ isGeneralMensuralNote(tempList[k])
          /\ \A m \in Between(k, self) : ~EndsMeasure(tempList[m])}

RECURSIVE Ascending(_)
Ascending(S) ==
  IF S = {} THEN <<>>
  ELSE LET m == CHOOSE x \in S : \A y \in S : x <= y
       IN  <<m>> \o Ascending(S \ {m})

(* the measure of self in document order *)
MeasureAround(self) == Ascending(RunAround(self))

(* C11, as stated: the measure a symbol of a stream is given lists the     *)
(* whole run of symbols around it up to the nearest ends of measure, in    *)
(* document order, and the index given is the symbol's place in that list. *)
(* The code does not keep the order: the third of three semibreves is      *)
(* given the first two in reverse.                                        *)
C11_DocumentOrder ==
  (attached /\ measured.self # 0)
    => /\ measured.mList = MeasureAround(measured.self)
       /\ measured.index = IndexOf(MeasureAround(measured.self), measured.self) - 1

SymbolsAround(self) ==
  [k \in 1..Len(MeasureAround(self)) |-> tempList[MeasureAround(self)[k]]]

(* C13, as stated: a symbol that is not the first of its measure is given   *)
(* the translator the first symbol of the measure is given; the deferrals  *)
(* end; under a Divisione that translator is built over the symbols of the *)
(* measure in document order, and a duration set is the length that the    *)
(* resolution of that list has at the symbol's place.  Under a Mensuration *)
(* the code gives the last of semibrevis, brevis, semibrevis the           *)
(* translator of the brevis alone.                                        *)
C13_OneResolverPerMeasure ==
  (attached /\ measured.self # 0 /\ measured.index > 0)
    => /\ tempTMM.cls # "unbounded"
       /\ tempTMM = _getTranslator(tempList, attached, context,
                                   MeasureAround(measured.self)[1], Len(tempList))
       /\ context.cls = "Divisione"
            => /\ tempTMM.mensuralMeasure = SymbolsAround(measured.self)
               /\ outcome = "set"
                    => duration[measured.self]
                         = durationFrom(context,
                             IndexOf(MeasureAround(measured.self), measured.self) - 1,
                             [cls |-> "_TranslateMensuralMeasure", mOrD |-> context,
                              mensuralMeasure |-> SymbolsAround(measured.self)])
                             .quarterLength

(* ---------------------------------------------------------------------- *)
(* Ligatures                                                              *)
(* ---------------------------------------------------------------------- *)
UpStems == {ind \in 0..(_ligatureLength - 1) : getStem(ind)[1] = "up"}

(* C14, amended: a ligature of N >= 2 pitches expands to exactly N notes,   *)
(* with or without up-stems: an up-stemmed position yields two semibreves, *)
(* its own note and that of the position after it.                        *)
C14_ExpandsToLength == _notes # <<>> => Len(_notes) = _ligatureLength

(* C14, as stated: each up-stemmed position adds one note, so a ligature   *)
(* with k up-stemmed positions expands to N + k notes.                    *)
C14_UpStemAddsNote ==
  _notes # <<>> => Len(_notes) = _ligatureLength + Cardinality(UpStems)

(* C14: a ligature of three pitches with an up-stem on its second note has *)
(* been expanded.                                                         *)
C14_Witness ==
  /\ _ligatureLength = 3
  /\ UpStems = {1}
  /\ _notes # <<>>
  /\ _notes[2] = "semibrevis" /\ _notes[3] = "semibrevis"

(* C15, as stated: no two consecutive notes of a ligature are reversed.    *)
(* The code looks only at the note before: reversing index 2 and then      *)
(* index 1 leaves both reversed.                                          *)
C15_NoConsecutiveReversed ==
  \A index \in 0..(_ligatureLength - 2) :
    ~(isReversed(index) /\ isReversed(index + 1))

(* the three rules of the stem layout, for a list st of stems *)
StemsLegal(st) ==
  /\ st # <<>> => st[Len(st)][1] # "up"
  /\ \A k \in 1..(Len(st) - 1) :
       /\ st[k][1] = "up" => st[k + 1] = <<"None", "None">>
       /\ ~(st[k][2] = "right" /\ st[k + 1][2] = "left")

(* C16: the last note never has an up-stem, the note after an up-stemmed   *)
(* note never has a stem, no two consecutive notes have the orientations   *)
(* right then left; and a setStem call whose stem would break one of these *)
(* ends in an exception and leaves the stems as they were.                *)
C16_StemLayoutLegal ==
  /\ StemsLegal(stems)
  /\ \A index \in 0..(_ligatureLength - 1) :
       \A direction \in Directions, orientation \in Orientations :
         ~StemsLegal([stems EXCEPT ![index + 1] =
                        <<IF direction = "none" THEN "None" ELSE direction,
                          orientation>>])
           => ~ENABLED (/\ setStem(index, direction, orientation)
                        /\ (error' = "none" \/ stems' # stems))

(* C16: a call on a ligature of three notes with an up-stem on the first   *)
(* and a down-stem on the last has just been rejected.                    *)
C16_Witness ==
  /\ _ligatureLength = 3
  /\ getStem(0)[1] = "up"
  /\ getStem(2)[1] = "down"
  /\ error = "MedRenException"

C18_FixedTypesStemless ==
  (note # None /\ note.mensuralType \in FixedTypes) => getStems(note) = <<>>

(* C19: a stem direction whose flag has an orientation is one of the       *)
(* note's stems, after any setStem and setFlag calls (no type assignment)  *)
C19_FlagsOnOwnStems ==
  (note # None /\ ~typeAssigned) =>
    /\ note.flagUp \in {"left", "right"} =>
         \E k \in 1..Len(getStems(note)) : getStems(note)[k] = "up"
    /\ note.flagDown \in {"left", "right"} =>
         \E k \in 1..Len(getStems(note)) : getStems(note)[k] = "down"

(* the setStem(direction) calls the rules forbid on the note as it is *)
StemForbidden(direction) ==
  \/ direction \in {"down", "side"} /\ Len(getStems(note)) >= 2
  \/ direction = "side" /\ note.mensuralType \notin {"semibrevis", "minima"}

(* C20: a MensuralNote whose type was never assigned has at most two stems *)
(* and a side stem only when it is a semibrevis or a minima; a setStem     *)
(* that would add a third stem, or a side stem to another type, raises and *)
(* leaves the stems as they were                                           *)
C20_StemsBounded ==
  (note # None /\ ~typeAssigned) =>
    /\ Len(getStems(note)) <= 2
    /\ (\E k \in 1..Len(getStems(note)) : getStems(note)[k] = "side")
         => note.mensuralType \in {"semibrevis", "minima"}
    /\ \A direction \in StemDirections :
         StemForbidden(direction) =>
           ~ENABLED (/\ setStemOfNote(direction)
                     /\ (error' = "none" \/ getStems(note') # getStems(note)))

(* a semibrevis with a down and a side stem has just refused another stem *)
C20_Witness ==
  /\ note # None
  /\ ~typeAssigned
  /\ note.mensuralType = "semibrevis"
  /\ getStems(note) = <<"down", "side">>
  /\ error = "MedRenException"

(* the onsets of the symbols under an assignment of lengths *)
Onset(lengths, k) == SumTo(lengths, k - 1)

(* the measures the evaluator has a weight for *)
Scorable(measure) ==
  \A k \in 1..Len(measure) :
     measure[k].mensuralType \in {"semibrevis", "minima", "semiminima"}

(* the lengths an assignment gives a symbol: 1/2, 2/3, 1, 3/2, 2, 3 minimae *)
LengthValues == {Half, TwoThirds, Unit, Unit + Half, 2 * Unit, 3 * Unit}

Assignments(measure) == [1..Len(measure) -> LengthValues]

(* the table of beat strengths, in eighths, for an onset in sixths of a    *)
(* minima: groups of four and groups of six                               *)
TabledBeat(standardSymbol, onset) ==
  IF standardSymbol \in {"q", "o", "d"}
  THEN CASE onset % (4 * Unit) = 0 -> 8
         [] onset % (4 * Unit) = 2 * Unit -> 4
         [] onset % (4 * Unit) \in {Unit, 3 * Unit} -> 2
         [] OTHER -> 1
  ELSE CASE onset % (6 * Unit) = 0 -> 8
         [] onset % (6 * Unit) \in {2 * Unit, 4 * Unit} -> 4
         [] onset % (6 * Unit) \in {Unit, 3 * Unit, 5 * Unit} -> 2
         [] OTHER -> 1

(* the weights of the types, in quarters *)
TabledWeight(t) == CASE t = "semibrevis" -> 4 [] t = "minima" -> 2 [] t = "semiminima" -> 1

RECURSIVE TabledSum(_, _, _, _)
TabledSum(standardSymbol, measure, lengths, k) ==
  IF k = 0 THEN 0
  ELSE TabledSum(standardSymbol, measure, lengths, k - 1)
       + TabledWeight(measure[k].mensuralType)
         * TabledBeat(standardSymbol, Onset(lengths, k))

(* the reference score in 288ths: the sum is in 32nds, the penalty in sixths *)
ReferenceScore(mOrD, measure, lengths) ==
  9 * TabledSum(mOrD.standardSymbol, measure, lengths, Len(measure))
  - 48 * Abs(mOrD.minimaPerBrevis - SumSeq(lengths))

(* the length lists the evaluator is asked about in this state: those the  *)
(* search has scored and, before the search, every assignment of lengths  *)
Scored ==
  {c.lengths : c \in frame.cands}
    \cup (IF pc = "constructed" THEN Assignments(mensuralMeasure) ELSE {})

StrengthAt(mOrD, lengths, k) ==
  beatStrength(mOrD.standardSymbol, Onset(lengths, k), k - 1)

(* one minima of length taken from symbol a and given to symbol b *)
Moved(lengths, a, b) ==
  [lengths EXCEPT ![a] = @ - Unit, ![b] = @ + Unit]

(* C22, as stated: taking one minima from a symbol on a weaker onset and   *)
(* giving it to a symbol on a strictly stronger onset, the total staying   *)
(* the same, does not lower the score of _evaluateMeasure                  *)
C22_StrongerNotLower ==
  (/\ pc = "constructed"
   /\ modes[1].cls = "Divisione"
   /\ Scorable(mensuralMeasure))
    => \A lengths \in Assignments(mensuralMeasure) :
         \A a, b \in 1..Len(mensuralMeasure) :
            (/\ a # b
             /\ lengths[a] > Unit
             /\ StrengthAt(modes[1], lengths, a) < StrengthAt(modes[1], lengths, b))
              => _evaluateMeasure(modes[1], mensuralMeasure, Moved(lengths, a, b))
                   >= _evaluateMeasure(modes[1], mensuralMeasure, lengths)

(* C23, as stated: under quaternaria the measure with a right flag on all  *)
(* four semiminima notes resolves to 1, 1/2, 1/2, 2/3, 2/3, 2/3            *)
C23_AllRightFlags ==
  (/\ pc = "returned"
   /\ modes[1] = Divisione("q")
   /\ mensuralMeasure = <<M, SM, SM, SM, SMrest, SM>>)
    => result = <<Unit, Half, Half, TwoThirds, TwoThirds, TwoThirds>>

(* C23: under quaternaria the measure minima, two left-flagged semiminimae, *)
(* a right-flagged semiminima, a semiminima rest and a right-flagged       *)
(* semiminima resolves to 1, 1/2, 1/2, 2/3, 2/3, 2/3 without a retry, and  *)
(* with right flags throughout to 1, 1/2, 1/2, 1/2, 1/2, 1/2               *)
C23_LeftThenRightFlags ==
  (pc = "returned" /\ modes[1] = Divisione("q"))
    => /\ mensuralMeasure = <<M, SMleft, SMleft, SM, SMrest, SM>>
            => /\ result = <<Unit, Half, Half, TwoThirds, TwoThirds, TwoThirds>>
               /\ doublings = 0
       /\ mensuralMeasure = <<M, SM, SM, SM, SMrest, SM>>
            => /\ result = <<Unit, Half, Half, Half, Half, Half>>
               /\ doublings = 0

(* C23: the measure of the docstring has been resolved under quaternaria *)
C23_Witness ==
  /\ pc = "returned"
  /\ modes[1] = Divisione("q")
  /\ mensuralMeasure = <<M, SMleft, SMleft, SM, SMrest, SM>>
  /\ SumSeq(result) = modes[1].minimaPerBrevis

(* C24, as stated: under duodenaria four semibreves of which the first two *)
(* are down-stemmed resolve to 2, 4, 4, 2                                  *)
C24_FirstTwoDownstemmed ==
  (/\ pc = "returned"
   /\ modes[1] = Divisione("d")
   /\ mensuralMeasure = <<SBdown, SBdown, SB, SB>>)
    => result = <<2 * Unit, 4 * Unit, 4 * Unit, 2 * Unit>>

(* C24: under duodenaria four semibreves of which the second and the third *)
(* are down-stemmed resolve to 2, 4, 4, 2, and with the first two          *)
(* down-stemmed to 4, 4, 2, 2                                              *)
C24_DownstemmedGetFour ==
  (pc = "returned" /\ modes[1] = Divisione("d"))
    => /\ mensuralMeasure = <<SB, SBdown, SBdown, SB>>
            => result = <<2 * Unit, 4 * Unit, 4 * Unit, 2 * Unit>>
       /\ mensuralMeasure = <<SBdown, SBdown, SB, SB>>
            => result = <<4 * Unit, 4 * Unit, 2 * Unit, 2 * Unit>>

(* C24: the measure with the inner down-stems has been resolved under      *)
(* duodenaria                                                              *)
C24_Witness ==
  /\ pc = "returned"
  /\ modes[1] = Divisione("d")
  /\ mensuralMeasure = <<SB, SBdown, SBdown, SB>>
  /\ SumSeq(result) = modes[1].minimaPerBrevis

(* what the fixed assignment pass leaves: the budget is minimaPerBrevis    *)
(* less the lengths the pass has written                                   *)
PassBalanced(mOrD, e) ==
  e.err = "none" => e.minRem = mOrD.minimaPerBrevis - SumSeq(e.minimaLengths)

(* C25, as stated: after the fixed assignment pass minRem is               *)
(* minimaPerBrevis less the sum of all lengths the pass assigned, those of *)
(* maxima, longa and brevis included                                       *)
C25_FixedLengthsSubtracted ==
  (pc = "constructed" /\ modes[1].cls = "Divisione")
    => PassBalanced(modes[1],
                    afterFixedPass(modes[1], mensuralMeasure, minimaLengthList, FALSE))

(* symbol k of the measure is a down-stemmed semibrevis *)
Downstemmed(k) ==
  /\ isNote(mensuralMeasure[k])
  /\ mensuralMeasure[k].mensuralType = "semibrevis"
  /\ Contains(getStems(mensuralMeasure[k]), "down")

(* what the returned lengths of the other symbols leave of the measure *)
LeftOver(k) == mOrDInEffect.minimaPerBrevis - (SumSeq(result) - result[k])

(* the least lengths the branches give a down-stemmed semibrevis: 2, 3, 4 *)
ModeFloors == {2 * Unit, 3 * Unit, 4 * Unit}

(* C26, as stated: in every divisione a down-stemmed semibrevis gets what  *)
(* the other symbols leave of minimaPerBrevis, or the floor of the mode    *)
(* when less is left                                                       *)
C26_DownstemAbsorbs ==
  pc = "returned"
    => \A k \in 1..Len(mensuralMeasure) :
          Downstemmed(k)
            => \/ result[k] = LeftOver(k)
               \/ LeftOver(k) < result[k] /\ result[k] \in ModeFloors

(* C27, as stated: a second getMinimaLengths on the same translator        *)
(* returns the list the call before it returned                            *)
C27_SameInstanceSameLengths ==
  (pc = "returned" /\ earlier # <<>>) => result = earlier

(* C28, as stated: every length of a returned list is strictly positive,   *)
(* for measures of semibreves, minimae, semiminimae and rests              *)
C28_LengthsPositive ==
  (pc = "returned" /\ Scorable(mensuralMeasure))
    => \A k \in 1..Len(result) : result[k] > 0

(* C29, as stated: for a measure of semibreves, minimae and semiminimae    *)
(* with legal decorations a resolution under a divisione ends in lengths   *)
(* or in the MedRenException of the resolver, never in another error       *)
C29_NoOtherError ==
  (modes[1].cls = "Divisione" /\ Scorable(mensuralMeasure))
    => error \in {"none", "MedRenException"}

(* the state in which the '.q.'/'.p.' search starts: what the fixed pass   *)
(* left, with two minimae given to every plain semibrevis but the last     *)
SearchEntry(mOrD, measure) ==
  LET e0 == afterFixedPass(mOrD, measure, zeros(measure), FALSE)
      butLast == SubSeq(e0.semibrevis_list, 1, Len(e0.semibrevis_list) - 1)
  IN [e0 EXCEPT !.minimaLengths = assignAll(@, butLast, 2 * Unit),
                !.minRem = @ - 2 * Unit * Len(butLast)]

DownstemOf(e) == IF Len(e.semibrevis_downstem) = 0 THEN 0 ELSE e.semibrevis_downstem[1]

(* the search state after the first k (left, right) pairs have been tried *)
RECURSIVE PairsTried(_, _, _, _)
PairsTried(mOrD, measure, e, k) ==
  IF k = 0 THEN startSearch(e)
  ELSE LET it == PairsTried(mOrD, measure, e, k - 1)
       IN IF it.err # "none" THEN it
          ELSE iterPairQP(mOrD, measure, e, DownstemOf(e), e.minRem, it,
                          flagPairs[k][1], flagPairs[k][2])

(* the single-flag search with its two candidates tried as first, second *)
TriedInOrder(mOrD, measure, e, first, second) ==
  LET it == iterSingleQP(mOrD, measure, e, DownstemOf(e), e.minRem, startSearch(e), first)
  IN IF it.err # "none" THEN it
     ELSE iterSingleQP(mOrD, measure, e, DownstemOf(e), e.minRem, it, second)

(* the measure is resolved by a search of quaternaria or senaria perfecta *)
Searched(mOrD, measure, e) ==
  /\ mOrD.cls = "Divisione"
  /\ mOrD.standardSymbol \in {"q", "p"}
  /\ e.err = "none"
  /\ DownstemOf(e) # Len(measure)
  /\ Len(e.semiminima_left_flag_list) + Len(e.semiminima_right_flag_list) > 0

(* every iteration of the pair search starts from the list the fixed pass left *)
SameBaseline(mOrD, measure, e) ==
  \A k \in 1..(Len(flagPairs) - 1) :
    LET it == PairsTried(mOrD, measure, e, k)
    IN it.err = "none" => it.st = e.minimaLengths

(* the single-flag search accepts the same lengths in either order *)
AnyOrder(mOrD, measure, e) ==
  TriedInOrder(mOrD, measure, e, flagLengths[1], flagLengths[2]).minimaLengths
    = TriedInOrder(mOrD, measure, e, flagLengths[2], flagLengths[1]).minimaLengths

(* C30, as stated: in the search over semiminima lengths every candidate   *)
(* starts from the list and the budget the fixed pass left, and the        *)
(* accepted lengths do not depend on the order the candidates are tried in *)
C30_SameBaselineAnyOrder ==
  (pc = "constructed"
     /\ Searched(modes[1], mensuralMeasure, SearchEntry(modes[1], mensuralMeasure)))
    => IF /\ Len(SearchEntry(modes[1], mensuralMeasure).semiminima_left_flag_list) > 0
          /\ Len(SearchEntry(modes[1], mensuralMeasure).semiminima_right_flag_list) > 0
       THEN SameBaseline(modes[1], mensuralMeasure, SearchEntry(modes[1], mensuralMeasure))
       ELSE AnyOrder(modes[1], mensuralMeasure, SearchEntry(modes[1], mensuralMeasure))

====
